---- MODULE Spec2Model ----
(***************************************************************************)
(* Model of the token-index / PII-detection / overlap-marking core of the  *)
(* pii-redacter backend and of the redaction that uses it:                 *)
(*   backend/pdf/PDFAdapter.py     pymupdf_to_data, google_doc_to_data     *)
(*   backend/pdf/GoogleDocumentAI.py  request_google_ocr and the cache file *)
(*   backend/pdf/PIIDetector.py    _PII_PATTERNS, _COMBINED_PII_PATTERN,   *)
(*                                 extract_pii_matches, get_pii_tokens     *)
(*   backend/pdf/DocumentData.py   PIIMatch, Token.overlaps_with_span      *)
(*   backend/pdf/PDFRedactor.py    _apply_redactions                       *)
(*   backend/app.py                test_all_pdfs                           *)
(* Strings are sequences of one-character strings; Python's 0-based,       *)
(* half-open indices are kept as they are and converted only where a       *)
(* sequence is subscripted.                                                *)
(***************************************************************************)
EXTENDS Integers, Sequences, FiniteSets, TLC

VARIABLES
  pc,           \* which step of the modelled run has completed
  raw,          \* input of the modelled call (words per page, OCR response, value to scan)
  doc,          \* DocumentData: [pages, full_text]
  raw_matches,  \* the PIIMatch list as _extract_direct_piis leaves it
  pii_matches,  \* the PIIMatch list (refined in place, then sorted)
  pii_tokens,   \* the list returned by the last get_pii_tokens call
  runs,         \* number of completed get_pii_tokens calls
  red,          \* the locals and the PDF of one _apply_redactions call
  batch,        \* the locals of one test_all_pdfs call
  work,         \* the position of the marking step of every token
  ocr           \* the files, the OCR cache and the calls of google_doc_to_data

vars ==
  <<pc, raw, doc, raw_matches, pii_matches, pii_tokens, runs, red, batch, work, ocr>>

None == "None"

----------------------------------------------------------------------------
(* Bounds of the model *)

MaxPages == 2
MaxWords == 2

----------------------------------------------------------------------------
(* Python string helpers *)

Min(a, b) == IF a < b THEN a ELSE b
Max(a, b) == IF a > b THEN a ELSE b

\* str.isspace() / str.isdigit() on one character
IsSpace(c) == c \in {" ", "\t", "\n"}
IsDigit(c) == c \in {"0", "1", "2", "3", "4", "5", "6", "7", "8", "9"}

\* s[a:b] with Python's clamping of out-of-range and negative indices
PySlice(s, a, b) ==
  LET n  == Len(s)
      lo == IF a < 0 THEN Max(0, a + n) ELSE Min(a, n)
      hi == IF b < 0 THEN Max(0, b + n) ELSE Min(b, n)
  IN  SubSeq(s, lo + 1, hi)

\* s.strip() == "" : nothing but whitespace
StripIsEmpty(s) == \A i \in 1..Len(s) : IsSpace(s[i])

----------------------------------------------------------------------------
(* DocumentData.py value types *)

TextSegment(s, e) == [start_index |-> s, end_index |-> e]

BoundingBox(a, b, c, d) == [x0 |-> a, y0 |-> b, x1 |-> c, y1 |-> d]

Token(t, box, segs) ==
  [text |-> t, bbox |-> box, text_segments |-> segs, detected_as |-> None]

PageData(toks) == [tokens |-> toks]

DocumentData(pgs, txt) == [pages |-> pgs, full_text |-> txt]

----------------------------------------------------------------------------
(* PDFAdapter.pymupdf_to_data *)

\* round(x, 2) of a coordinate; coordinates are whole points in this model
Round2(x) == x

\* the inner loop over the words of one page: start and end are the two
\* pointers of the code, parsed is parsed_tokens, text is document_text
RECURSIVE WordLoop(_, _, _, _, _)
WordLoop(tokens, i, start, parsed, text) ==
  IF i > Len(tokens) THEN [parsed_tokens |-> parsed, document_text |-> text]
  ELSE LET token_info == tokens[i]
           token_text == token_info[5]
       IN  IF StripIsEmpty(token_text)
           THEN WordLoop(tokens, i + 1, start, parsed, text)
           ELSE LET end == start + Len(token_text)
                    segment == TextSegment(start, end)
                    tok == Token(token_text,
                                 BoundingBox(Round2(token_info[1]), Round2(token_info[2]),
                                             Round2(token_info[3]), Round2(token_info[4])),
                                 <<segment>>)
                IN  WordLoop(tokens, i + 1, end + 1,
                             Append(parsed, tok), text \o token_text \o <<" ">>)

\* the outer loop over the pages: the two pointers are set to 0 when a page
\* is entered, document_text is carried across pages
RECURSIVE PageLoop(_, _, _, _)
PageLoop(d, p, page_data_list, text) ==
  IF p > Len(d) THEN DocumentData(page_data_list, text)
  ELSE LET r == WordLoop(d[p], 1, 0, <<>>, text)
       IN  PageLoop(d, p + 1,
                    Append(page_data_list, PageData(r.parsed_tokens)),
                    r.document_text)

pymupdf_to_data(d) == PageLoop(d, 1, <<>>, <<>>)

----------------------------------------------------------------------------
(* Inputs of the builder *)

\* the word texts a page may hold: a whitespace-only word and two words of
\* different length
WordTexts == { <<" ">>, <<"a">>, <<"b", "c">> }

\* one get_text("words") entry: [x0, y0, x1, y1, word, ...]; the box is laid
\* out by the word's position on the page
WordInfo(i, t) == <<12 * (i - 1), 0, 12 * (i - 1) + 10, 10, t>>

SeqsUpTo(S, n) == UNION { [1..k -> S] : k \in 0..n }

RawPages ==
  { [i \in 1..Len(ws) |-> WordInfo(i, ws[i])] : ws \in SeqsUpTo(WordTexts, MaxWords) }

RawDocs == SeqsUpTo(RawPages, MaxPages)

EmptyDoc == DocumentData(<<>>, <<>>)

----------------------------------------------------------------------------
(* Specification of the native builder *)

InitBuild ==
  /\ pc = "raw"
  /\ raw \in RawDocs
  /\ doc = EmptyDoc
  /\ raw_matches = <<>>
  /\ pii_matches = <<>>
  /\ pii_tokens = <<>>
  /\ runs = 0
  /\ red = None
  /\ batch = None
  /\ work = None
  /\ ocr = None

PymupdfToData ==
  /\ pc = "raw"
  /\ doc' = pymupdf_to_data(raw)
  /\ pc' = "built"
  /\ UNCHANGED <<raw, raw_matches, pii_matches, pii_tokens, runs, red, batch,
               work, ocr>>

NextBuild == PymupdfToData

SpecBuild == InitBuild /\ [][NextBuild]_vars

----------------------------------------------------------------------------
(* Tokens of a document in document order *)

TokenRefs(d) ==
  UNION { { <<p, i>> : i \in 1..Len(d.pages[p].tokens) } : p \in 1..Len(d.pages) }

TokenAt(d, r) == d.pages[r[1]].tokens[r[2]]

\* r1 is visited before r2
Before(r1, r2) == r1[1] < r2[1] \/ (r1[1] = r2[1] /\ r1[2] < r2[2])

\* C1: in every Document built by pymupdf_to_data, with any number of pages,
\* slicing full_text by a token's segment gives the token's text.
C1_IndexRoundTrip ==
  pc = "built" =>
    \A r \in TokenRefs(doc) :
      LET t == TokenAt(doc, r)
      IN  PySlice(doc.full_text, t.text_segments[1].start_index,
                  t.text_segments[1].end_index) = t.text

\* C2: token indices run over the whole document: the first kept token
\* starts at 0, every later one (also the first of a following page) starts
\* one past the end of the token kept before it, and end = start + len(text).
C2_GlobalIndices ==
  pc = "built" =>
    \A r \in TokenRefs(doc) :
      LET seg  == TokenAt(doc, r).text_segments[1]
          prev == { q \in TokenRefs(doc) : Before(q, r) }
          last == CHOOSE q \in prev : \A o \in prev : o = q \/ Before(o, q)
      IN  /\ seg.end_index = seg.start_index + Len(TokenAt(doc, r).text)
          /\ seg.start_index =
               IF prev = {} THEN 0
               ELSE TokenAt(doc, last).text_segments[1].end_index + 1

\* C12: visiting the tokens of a built Document in document order, each
\* token's start_index is at least the start_index and the end_index of
\* every token visited before it, across page boundaries too.
C12_SegmentsMonotonic ==
  pc = "built" =>
    \A q \in TokenRefs(doc), r \in TokenRefs(doc) :
      Before(q, r) =>
        /\ TokenAt(doc, r).text_segments[1].start_index >=
             TokenAt(doc, q).text_segments[1].start_index
        /\ TokenAt(doc, r).text_segments[1].start_index >=
             TokenAt(doc, q).text_segments[1].end_index

\* the word texts of all pages in document order
RECURSIVE FlatWords(_)
FlatWords(d) ==
  IF d = <<>> THEN <<>>
  ELSE [i \in 1..Len(d[1]) |-> d[1][i][5]] \o FlatWords(Tail(d))

\* " ".join(parts)
RECURSIVE JoinWithSpace(_)
JoinWithSpace(parts) ==
  IF parts = <<>> THEN <<>>
  ELSE IF Len(parts) = 1 THEN parts[1]
  ELSE parts[1] \o <<" ">> \o JoinWithSpace(Tail(parts))

\* C13: full_text is the non-empty token texts of all pages, in document
\* order, joined by exactly one space, with no leading and no trailing
\* separator.
C13_FullTextIsSpaceJoined ==
  pc = "built" =>
    doc.full_text =
      JoinWithSpace(SelectSeq(FlatWords(raw), LAMBDA t : ~StripIsEmpty(t)))

----------------------------------------------------------------------------
(* PIIDetector._refine_pii_matches *)

\* the members of PIIType used here, by name
SSN == "SSN"
ROUTING_NUMBER == "ROUTING_NUMBER"
ACCOUNT_NUMBER == "ACCOUNT_NUMBER"
CREDIT_SCORE_RATING == "CREDIT_SCORE_RATING"
CREDIT_SCORE == "CREDIT_SCORE"

\* pii_type.value
PIITypeValue(t) ==
  CASE t = SSN -> "SSN"
    [] t = ROUTING_NUMBER -> "Routing Number"
    [] t = ACCOUNT_NUMBER -> "Account Number"
    [] t = CREDIT_SCORE_RATING -> "Credit Score Rating"
    [] t = CREDIT_SCORE -> "Credit Score"

\* a match object as the finditer loop of _extract_direct_piis fills it:
\* the matched text and its span in document_text
PIIMatch(t, s, e, type) ==
  [text |-> t, start_index |-> s, end_index |-> e, pii_type |-> type]

\* while match.start_index < n and not match.text[match.start_index].isdigit()
RECURSIVE ScoreLoop(_, _)
ScoreLoop(text, start_index) ==
  IF start_index < Len(text) /\ ~IsDigit(text[start_index + 1])
  THEN ScoreLoop(text, start_index + 1)
  ELSE start_index

\* while match.start_index < n and match.text[match.start_index].isspace()
RECURSIVE RatingLoop(_, _)
RatingLoop(text, start_index) ==
  IF start_index < Len(text) /\ IsSpace(text[start_index + 1])
  THEN RatingLoop(text, start_index + 1)
  ELSE start_index

\* the wrong label length: the skip of "credit report:" taken as 24
RefineMatchLongSkip(m) ==
  IF m.pii_type = CREDIT_SCORE
  THEN [m EXCEPT !.start_index = ScoreLoop(m.text, m.start_index)]
  ELSE IF m.pii_type = CREDIT_SCORE_RATING
  THEN [m EXCEPT !.start_index = RatingLoop(m.text, m.start_index + 24)]
  ELSE m

\* the update the comment of lines 110-112 leaves out: the text cut down to the
\* characters from the new start_index on
RefineMatchUpdatesText(m) ==
  LET start_index ==
        IF m.pii_type = CREDIT_SCORE
        THEN ScoreLoop(m.text, m.start_index)
        ELSE IF m.pii_type = CREDIT_SCORE_RATING
        THEN RatingLoop(m.text, m.start_index + 14)
        ELSE m.start_index
  IN  [m EXCEPT !.start_index = start_index,
                !.text = PySlice(m.text, start_index - m.start_index,
                                 Len(m.text))]

\* the span of a rating shifted as a whole: end_index moved by the label too
RefineMatchShiftsSpan(m) ==
  IF m.pii_type = CREDIT_SCORE
  THEN [m EXCEPT !.start_index = ScoreLoop(m.text, m.start_index)]
  ELSE IF m.pii_type = CREDIT_SCORE_RATING
  THEN [m EXCEPT !.start_index = RatingLoop(m.text, m.start_index + 14),
                 !.end_index = m.end_index + 14]
  ELSE m

\* the body of the for loop: only start_index is assigned
RefineMatch(m) ==
  IF m.pii_type = CREDIT_SCORE
  THEN [m EXCEPT !.start_index = ScoreLoop(m.text, m.start_index)]
  ELSE IF m.pii_type = CREDIT_SCORE_RATING
  THEN [m EXCEPT !.start_index = RatingLoop(m.text, m.start_index + 14)]
  ELSE m

_refine_pii_matches(ms) == [i \in DOMAIN ms |-> RefineMatch(ms[i])]

----------------------------------------------------------------------------
(* Inputs of the refinement: texts that hold one or two labelled values *)

MaxStart == 26
MaxWs == 2

ScoreLabel == <<"c", "r", "e", "d", "i", "t", " ", "s", "c", "o", "r", "e", ":">>
ReportLabel == <<"c", "r", "e", "d", "i", "t", " ", "r", "e", "p", "o", "r", "t", ":">>

Scores == { <<"8", "0", "0">> }

Ratings ==
  { <<"v", "e", "r", "y", " ", "g", "o", "o", "d">>, <<"g", "o", "o", "d">>,
    <<"e", "x", "c", "e", "l", "l", "e", "n", "t">>, <<"f", "a", "i", "r">>,
    <<"p", "o", "o", "r">>, <<"b", "a", "d">> }

Repeat(c, n) == [i \in 1..n |-> c]

\* what the patterns  credit score:\s*\d{3}  and
\* credit report:\s*(very good|good|excellent|fair|poor|bad)  accept
Phrases ==
  { [text |-> ScoreLabel \o Repeat(" ", w) \o v, pii_type |-> CREDIT_SCORE] :
      w \in 0..MaxWs, v \in Scores } \cup
  { [text |-> ReportLabel \o Repeat(" ", w) \o v, pii_type |-> CREDIT_SCORE_RATING] :
      w \in 0..MaxWs, v \in Ratings }

\* a text of k other characters followed by the phrases, one space apart,
\* and the matches finditer reports for it
RefineInputs ==
  { [full_text |-> Repeat("x", k) \o p.text,
     matches |-> <<PIIMatch(p.text, k, k + Len(p.text), p.pii_type)>>] :
      k \in 0..MaxStart, p \in Phrases } \cup
  { [full_text |-> Repeat("x", k) \o p.text \o <<" ">> \o q.text,
     matches |-> <<PIIMatch(p.text, k, k + Len(p.text), p.pii_type),
                   PIIMatch(q.text, k + Len(p.text) + 1,
                            k + Len(p.text) + 1 + Len(q.text), q.pii_type)>>] :
      k \in 0..MaxStart, p \in Phrases, q \in Phrases }

InitRefine ==
  /\ pc = "extracted"
  /\ raw = <<>>
  /\ \E in \in RefineInputs :
       /\ doc = DocumentData(<<>>, in.full_text)
       /\ raw_matches = in.matches
       /\ pii_matches = in.matches
  /\ pii_tokens = <<>>
  /\ runs = 0
  /\ red = None
  /\ batch = None
  /\ work = None
  /\ ocr = None

RefinePiiMatches ==
  /\ pc = "extracted"
  /\ pii_matches' = _refine_pii_matches(pii_matches)
  /\ pc' = "refined"
  /\ UNCHANGED <<raw, doc, raw_matches, pii_tokens, runs, red, batch,
               work, ocr>>

NextRefine == RefinePiiMatches

SpecRefine == InitRefine /\ [][NextRefine]_vars

\* index of the first character at or after index i of s that is a digit
\* (Len(s) when there is none)
RECURSIVE FirstDigitFrom(_, _)
FirstDigitFrom(s, i) ==
  IF i >= Len(s) \/ IsDigit(s[i + 1]) THEN i ELSE FirstDigitFrom(s, i + 1)

\* index of the first character at or after index i of s that is no whitespace
RECURSIVE FirstNonSpaceFrom(_, _)
FirstNonSpaceFrom(s, i) ==
  IF i >= Len(s) \/ ~IsSpace(s[i + 1]) THEN i ELSE FirstNonSpaceFrom(s, i + 1)

\* C4: after refinement a CREDIT_SCORE match, wherever it starts, starts at
\* the full_text index of the first digit of the score and covers exactly the
\* three digits.
C4_ScoreSpanIsTheDigits ==
  pc = "refined" =>
    \A i \in DOMAIN pii_matches :
      pii_matches[i].pii_type = CREDIT_SCORE =>
        /\ pii_matches[i].start_index =
             FirstDigitFrom(doc.full_text, raw_matches[i].start_index)
        /\ pii_matches[i].end_index - pii_matches[i].start_index = 3
        /\ \A j \in pii_matches[i].start_index .. pii_matches[i].end_index - 1 :
             IsDigit(doc.full_text[j + 1])

\* C5: after refinement a CREDIT_SCORE_RATING match, wherever it starts and
\* however much whitespace follows the colon, starts at the full_text index
\* of the first character of the rating word and covers only the rating.
C5_RatingSpanIsTheRating ==
  pc = "refined" =>
    \A i \in DOMAIN pii_matches :
      pii_matches[i].pii_type = CREDIT_SCORE_RATING =>
        /\ pii_matches[i].start_index =
             FirstNonSpaceFrom(doc.full_text,
                               raw_matches[i].start_index + Len(ReportLabel))
        /\ PySlice(doc.full_text, pii_matches[i].start_index,
                   pii_matches[i].end_index) \in Ratings

\* C6: refinement only narrows: for every CREDIT_SCORE and
\* CREDIT_SCORE_RATING match at any position, raw start <= refined start <=
\* end, and the end is the raw end.
C6_RefinementOnlyNarrows ==
  pc = "refined" =>
    \A i \in DOMAIN pii_matches :
      pii_matches[i].pii_type \in {CREDIT_SCORE, CREDIT_SCORE_RATING} =>
        /\ raw_matches[i].start_index <= pii_matches[i].start_index
        /\ pii_matches[i].start_index <= pii_matches[i].end_index
        /\ pii_matches[i].end_index = raw_matches[i].end_index

\* a score and a rating, neither at index 0, both moved forward by refinement
C6_Witness ==
  /\ pc = "refined"
  /\ Len(pii_matches) = 2
  /\ pii_matches[1].pii_type = CREDIT_SCORE
  /\ pii_matches[2].pii_type = CREDIT_SCORE_RATING
  /\ raw_matches[1].start_index > 0
  /\ pii_matches[1].start_index > raw_matches[1].start_index
  /\ pii_matches[2].start_index > raw_matches[2].start_index

----------------------------------------------------------------------------
(* PDFAdapter.google_doc_to_data: the service response turned into a       *)
(* DocumentData (the part after the response has been obtained)            *)

\* one segment of extract_text_from_text_anchor: the slice when the indices
\* are in range, the partial slice up to len(document_text) otherwise
SegmentText(segment, document_text) ==
  IF 0 <= segment.start_index /\ segment.start_index < segment.end_index
       /\ segment.end_index <= Len(document_text)
  THEN PySlice(document_text, segment.start_index, segment.end_index)
  ELSE PySlice(document_text, segment.start_index,
               Min(segment.end_index, Len(document_text)))

RECURSIVE AnchorLoop(_, _, _, _)
AnchorLoop(segments, i, document_text, extracted_text) ==
  IF i > Len(segments) THEN extracted_text
  ELSE AnchorLoop(segments, i + 1, document_text,
                  extracted_text \o SegmentText(segments[i], document_text))

extract_text_from_text_anchor(text_anchor, document_text) ==
  IF text_anchor = <<>> THEN <<>>
  ELSE AnchorLoop(text_anchor, 1, document_text, <<>>)

\* vertices are given in quarters of the page, page sizes are multiples of
\* 4 points, so the products are whole points
convert_bounding_poly(bounding_poly, page_width, page_height) ==
  BoundingBox(Round2((bounding_poly[1].x * page_width) \div 4),
              Round2((bounding_poly[1].y * page_height) \div 4),
              Round2((bounding_poly[3].x * page_width) \div 4),
              Round2((bounding_poly[3].y * page_height) \div 4))

\* the skip of textless tokens left out: every token of the response is kept
RECURSIVE GTokenLoopKeepAll(_, _, _, _, _)
GTokenLoopKeepAll(tokens, i, document_text, rect, tokens_per_page) ==
  IF i > Len(tokens) THEN tokens_per_page
  ELSE LET token == tokens[i]
       IN  GTokenLoopKeepAll(tokens, i + 1, document_text, rect,
             Append(tokens_per_page,
                    Token(extract_text_from_text_anchor(token.text_anchor, document_text),
                          convert_bounding_poly(token.bounding_poly,
                                                rect.width, rect.height),
                          [k \in DOMAIN token.text_anchor |->
                             TextSegment(token.text_anchor[k].start_index,
                                         token.text_anchor[k].end_index)])))

RECURSIVE GTokenLoop(_, _, _, _, _)
GTokenLoop(tokens, i, document_text, rect, tokens_per_page) ==
  IF i > Len(tokens) THEN tokens_per_page
  ELSE LET token == tokens[i]
           token_text == extract_text_from_text_anchor(token.text_anchor, document_text)
       IN  IF StripIsEmpty(token_text)
           THEN GTokenLoop(tokens, i + 1, document_text, rect, tokens_per_page)
           ELSE GTokenLoop(tokens, i + 1, document_text, rect,
                  Append(tokens_per_page,
                         Token(token_text,
                               convert_bounding_poly(token.bounding_poly,
                                                     rect.width, rect.height),
                               [k \in DOMAIN token.text_anchor |->
                                  TextSegment(token.text_anchor[k].start_index,
                                              token.text_anchor[k].end_index)])))

RECURSIVE GPageLoop(_, _, _, _)
GPageLoop(gdoc, pdf_doc, index, pages) ==
  IF index > Len(gdoc.pages) THEN DocumentData(pages, gdoc.text)
  ELSE GPageLoop(gdoc, pdf_doc, index + 1,
                 Append(pages,
                        PageData(GTokenLoop(gdoc.pages[index], 1, gdoc.text,
                                            pdf_doc[index], <<>>))))

google_doc_to_data(gdoc, pdf_doc) == GPageLoop(gdoc, pdf_doc, 1, <<>>)

----------------------------------------------------------------------------
(* Token.overlaps_with_span and PIIDetector.get_pii_tokens *)

\* closed intervals instead of half-open ones
RECURSIVE SegmentLoopClosed(_, _, _, _)
SegmentLoopClosed(segments, i, start_idx, end_idx) ==
  IF i > Len(segments) THEN FALSE
  ELSE IF start_idx <= segments[i].end_index /\ end_idx >= segments[i].start_index
       THEN TRUE
       ELSE SegmentLoopClosed(segments, i + 1, start_idx, end_idx)

\* the for loop over self.text_segments, returning at the first overlap
RECURSIVE SegmentLoop(_, _, _, _)
SegmentLoop(segments, i, start_idx, end_idx) ==
  IF i > Len(segments) THEN FALSE
  ELSE IF start_idx < segments[i].end_index /\ end_idx > segments[i].start_index
       THEN TRUE
       ELSE SegmentLoop(segments, i + 1, start_idx, end_idx)

\* return False placed inside the loop: only the first segment is tested
overlaps_first_segment_only(token, start_idx, end_idx) ==
  /\ Len(token.text_segments) > 0
  /\ start_idx < token.text_segments[1].end_index
  /\ end_idx > token.text_segments[1].start_index

overlaps_with_span(token, start_idx, end_idx) ==
  SegmentLoop(token.text_segments, 1, start_idx, end_idx)

\* the break placed inside the if and the guard comparing types: a marked
\* token moves on to the next overlapping match of another type
RECURSIVE MatchLoopEscalate(_, _, _)
MatchLoopEscalate(token, matches, j) ==
  IF j > Len(matches) THEN [token |-> token, appended |-> FALSE]
  ELSE LET pii == matches[j]
       IN  IF overlaps_with_span(token, pii.start_index, pii.end_index)
                /\ token.detected_as # PIITypeValue(pii.pii_type)
           THEN [token |-> [token EXCEPT !.detected_as = PIITypeValue(pii.pii_type)],
                 appended |-> TRUE]
           ELSE MatchLoopEscalate(token, matches, j + 1)

\* the break left out: every overlapping match writes its type, the last
\* one stays
RECURSIVE MatchLoopLastWins(_, _, _)
MatchLoopLastWins(token, matches, j) ==
  IF j > Len(matches) THEN [token |-> token, appended |-> FALSE]
  ELSE LET pii == matches[j]
           r == MatchLoopLastWins(token, matches, j + 1)
       IN  IF overlaps_with_span(token, pii.start_index, pii.end_index)
                /\ token.detected_as = None
           THEN [token |-> IF r.appended THEN r.token
                           ELSE [token EXCEPT !.detected_as = PIITypeValue(pii.pii_type)],
                 appended |-> TRUE]
           ELSE r

\* the marked token cut down to the match: of its segments only those that
\* overlap the match are kept
RECURSIVE MatchLoopTrimsSegments(_, _, _)
MatchLoopTrimsSegments(token, matches, j) ==
  IF j > Len(matches) THEN [token |-> token, appended |-> FALSE]
  ELSE LET pii == matches[j]
           Hit(seg) == seg.start_index < pii.end_index
                         /\ pii.start_index < seg.end_index
       IN  IF overlaps_with_span(token, pii.start_index, pii.end_index)
           THEN IF token.detected_as = None
                THEN [token |->
                        [token EXCEPT
                           !.detected_as = PIITypeValue(pii.pii_type),
                           !.text_segments = SelectSeq(token.text_segments, Hit)],
                      appended |-> TRUE]
                ELSE [token |-> token, appended |-> FALSE]
           ELSE MatchLoopTrimsSegments(token, matches, j + 1)

\* for pii in pii_matches: at the first overlapping match the token is marked
\* and appended if it is unmarked, and the loop is left either way
RECURSIVE MatchLoop(_, _, _)
MatchLoop(token, matches, j) ==
  IF j > Len(matches) THEN [token |-> token, appended |-> FALSE]
  ELSE LET pii == matches[j]
       IN  IF overlaps_with_span(token, pii.start_index, pii.end_index)
           THEN IF token.detected_as = None
                THEN [token |-> [token EXCEPT !.detected_as = PIITypeValue(pii.pii_type)],
                      appended |-> TRUE]
                ELSE [token |-> token, appended |-> FALSE]
           ELSE MatchLoop(token, matches, j + 1)

\* the page number (page_index + 1) stored instead of page_index
PiiTokenEntryPageNumber(page_index, ref) == [page_index |-> page_index + 1, token |-> ref]

\* the tuple (page_index, token); the Token object is named by its place in
\* the document
PiiTokenEntry(page_index, ref) == [page_index |-> page_index, token |-> ref]

\* for token in page.tokens
RECURSIVE MarkTokenLoop(_, _, _, _, _, _)
MarkTokenLoop(tokens, i, p, matches, marked, out) ==
  IF i > Len(tokens) THEN [tokens |-> marked, pii_tokens |-> out]
  ELSE LET r == MatchLoop(tokens[i], matches, 1)
       IN  MarkTokenLoop(tokens, i + 1, p, matches, Append(marked, r.token),
                         IF r.appended
                         THEN Append(out, PiiTokenEntry(p - 1, <<p, i>>))
                         ELSE out)

\* for page_index, page in enumerate(doc_data.pages)
RECURSIVE MarkPageLoop(_, _, _, _, _)
MarkPageLoop(d, p, matches, pages, out) ==
  IF p > Len(d.pages) THEN [doc |-> [d EXCEPT !.pages = pages], pii_tokens |-> out]
  ELSE LET r == MarkTokenLoop(d.pages[p].tokens, 1, p, matches, <<>>, out)
       IN  MarkPageLoop(d, p + 1, matches,
                        Append(pages, [d.pages[p] EXCEPT !.tokens = r.tokens]),
                        r.pii_tokens)

get_pii_tokens(d, matches) == MarkPageLoop(d, 1, matches, <<>>, <<>>)

----------------------------------------------------------------------------
(* Inputs of the marking: built documents and the matches of their text *)

MaxIdx == 3
MaxMatches == 2
MaxRuns == 2

\* pages of a text PDF
MarkWordLists ==
  { << <<"a">> >>, << <<"a">>, <<"b", "c">> >>, << <<"b", "c">>, <<"a">> >> }

MarkRawDocs ==
  SeqsUpTo({ [i \in 1..Len(ws) |-> WordInfo(i, ws[i])] : ws \in MarkWordLists }, MaxPages)

\* the text an OCR response carries, and tokens anchored in it
ResponseText == <<"a", "b", " ", "c", "d">>

Poly(i) ==
  << [x |-> i - 1, y |-> 0], [x |-> i, y |-> 0], [x |-> i, y |-> 1], [x |-> i - 1, y |-> 1] >>

GToken(i, anchor) == [text_anchor |-> anchor, bounding_poly |-> Poly(i)]

\* per page: a token with a degenerate second segment and a plain one; a
\* token of two segments and one reaching past the end of the text; a blank
\* token, a token with only a degenerate segment and a token across words
AnchorLists ==
  { << <<TextSegment(0, 2), TextSegment(4, 2)>>, <<TextSegment(3, 5)>> >>,
    << <<TextSegment(0, 1), TextSegment(2, 4)>>, <<TextSegment(3, 9)>> >>,
    << <<TextSegment(2, 3)>>, <<TextSegment(4, 2)>>, <<TextSegment(1, 4)>> >> }

Responses ==
  { [text |-> ResponseText, pages |-> pgs] :
      pgs \in SeqsUpTo({ [i \in 1..Len(as) |-> GToken(i, as[i])] : as \in AnchorLists },
                       MaxPages) }

PdfDoc(n) == [i \in 1..n |-> [width |-> 612, height |-> 792]]

MarkTypes == {SSN, ACCOUNT_NUMBER}

\* the lists extract_pii_matches can return for a text: at most n matches
\* in 0..hi, sorted by start, one after the other
RECURSIVE MatchLists(_, _, _, _)
MatchLists(text, lo, hi, n) ==
  IF n = 0 THEN {<<>>}
  ELSE {<<>>} \cup
       UNION { UNION { { <<PIIMatch(PySlice(text, s, e), s, e, ty)>> \o rest :
                           ty \in MarkTypes, rest \in MatchLists(text, e, hi, n - 1) } :
                       e \in (s + 1)..hi } :
               s \in lo..(hi - 1) }

\* the matches of the document's text
MatchesOf(d) ==
  MatchLists(d.full_text, 0, Min(MaxIdx, Len(d.full_text)), MaxMatches)

InitMark ==
  /\ pc = "built"
  /\ \/ \E r \in MarkRawDocs :
          /\ raw = r
          /\ doc = pymupdf_to_data(r)
     \/ \E g \in Responses :
          /\ raw = g
          /\ doc = google_doc_to_data(g, PdfDoc(Len(g.pages)))
  /\ pii_matches \in MatchesOf(doc)
  /\ raw_matches = pii_matches
  /\ pii_tokens = <<>>
  /\ runs = 0
  /\ red = None
  /\ batch = None
  /\ work = None
  /\ ocr = None

GetPiiTokens ==
  /\ runs < MaxRuns
  /\ LET r == get_pii_tokens(doc, pii_matches)
     IN  /\ doc' = r.doc
         /\ pii_tokens' = r.pii_tokens
  /\ runs' = runs + 1
  /\ pc' = "marked"
  /\ UNCHANGED <<raw, raw_matches, pii_matches, red, batch,
               work, ocr>>

NextMark == GetPiiTokens

SpecMark == InitMark /\ [][NextMark]_vars

\* the tokens of d whose detected_as is set
Marked(d) == { r \in TokenRefs(d) : TokenAt(d, r).detected_as # None }

\* half-open overlap of [a0, a1) and [b0, b1)
HalfOpenOverlap(a0, a1, b0, b1) == a0 < b1 /\ a1 > b0

\* some segment of the token overlaps the span of the match
Covers(t, m) ==
  \E k \in DOMAIN t.text_segments :
    HalfOpenOverlap(t.text_segments[k].start_index, t.text_segments[k].end_index,
                    m.start_index, m.end_index)

\* a token with the one segment [a0, a1)
OneSegmentToken(a0, a1) == Token(<<>>, BoundingBox(0, 0, 0, 0), <<TextSegment(a0, a1)>>)

\* C3: a second get_pii_tokens call on the same Document (same matches)
\* leaves the marked-token set and every token's detected_as as the first
\* call left them.
C3_SecondRunChangesNothing ==
  [][(runs >= 1 /\ runs' = runs + 1) =>
       /\ Marked(doc') = Marked(doc)
       /\ \A r \in TokenRefs(doc) :
            TokenAt(doc', r).detected_as = TokenAt(doc, r).detected_as]_vars

\* two calls made; a token that overlaps two matches of different types is
\* marked with the type of the first
C3_Witness ==
  /\ runs = 2
  /\ Len(pii_matches) = 2
  /\ pii_matches[1].pii_type # pii_matches[2].pii_type
  /\ \E r \in Marked(doc) :
       /\ Covers(TokenAt(doc, r), pii_matches[1])
       /\ Covers(TokenAt(doc, r), pii_matches[2])
       /\ TokenAt(doc, r).detected_as = PIITypeValue(pii_matches[1].pii_type)

\* C7: detected_as is write-once: over any sequence of get_pii_tokens calls
\* a token's detected_as changes only from None to a PII type, and a set
\* value is never changed or cleared.
C7_DetectedAsWriteOnce ==
  [][\A r \in TokenRefs(doc) :
       TokenAt(doc', r).detected_as # TokenAt(doc, r).detected_as =>
         /\ TokenAt(doc, r).detected_as = None
         /\ \E ty \in MarkTypes : TokenAt(doc', r).detected_as = PIITypeValue(ty)]_vars

\* after the last call some token is marked and some token is not
C7_Witness ==
  /\ runs = MaxRuns
  /\ Marked(doc) # {}
  /\ Marked(doc) # TokenRefs(doc)
  /\ pii_tokens = <<>>

\* C8: on a Document whose tokens are all unmarked, get_pii_tokens returns
\* exactly the tokens with a segment overlapping a match span: partially
\* covered tokens are in, disjoint and adjacent tokens are out.
C8_ReturnedAreTheOverlapping ==
  runs = 1 =>
    { pii_tokens[i].token : i \in DOMAIN pii_tokens } =
      { r \in TokenRefs(doc) :
          \E j \in DOMAIN pii_matches : Covers(TokenAt(doc, r), pii_matches[j]) }

\* a returned token reaches beyond the span that covers it, and a token
\* that ends where a span starts is not returned
C8_Witness ==
  /\ runs = 1
  /\ \E i \in DOMAIN pii_tokens, j \in DOMAIN pii_matches :
       LET t == TokenAt(doc, pii_tokens[i].token)
       IN  /\ Covers(t, pii_matches[j])
           /\ \E k \in DOMAIN t.text_segments :
                /\ t.text_segments[k].start_index < pii_matches[j].start_index
                /\ t.text_segments[k].end_index > pii_matches[j].start_index
  /\ \E r \in TokenRefs(doc) \ Marked(doc), j \in DOMAIN pii_matches :
       \E k \in DOMAIN TokenAt(doc, r).text_segments :
         TokenAt(doc, r).text_segments[k].end_index = pii_matches[j].start_index

\* C9: overlaps_with_span(b0, b1) is true iff some segment [a0, a1) has
\* a0 < b1 and a1 > b0; a segment that ends at b0 or starts at b1 does not
\* overlap; the test gives the same answer with the two intervals swapped.
C9_OverlapIsHalfOpen ==
  \A r \in TokenRefs(doc), b0 \in 0..(MaxIdx + 1), b1 \in 0..(MaxIdx + 1) :
    LET t == TokenAt(doc, r)
    IN  /\ overlaps_with_span(t, b0, b1) =
             (\E k \in DOMAIN t.text_segments :
                t.text_segments[k].start_index < b1 /\ t.text_segments[k].end_index > b0)
        /\ \A k \in DOMAIN t.text_segments :
             LET a0 == t.text_segments[k].start_index
                 a1 == t.text_segments[k].end_index
             IN  /\ (a1 = b0 \/ a0 = b1) => ~overlaps_with_span(OneSegmentToken(a0, a1), b0, b1)
                 /\ overlaps_with_span(OneSegmentToken(a0, a1), b0, b1) =
                      overlaps_with_span(OneSegmentToken(b0, b1), a0, a1)

\* a marked token whose first segment ends where the match starts and whose
\* second segment is inside the match
C9_Witness ==
  /\ runs >= 1
  /\ \E r \in Marked(doc), j \in DOMAIN pii_matches :
       LET t == TokenAt(doc, r)
       IN  /\ Len(t.text_segments) = 2
           /\ t.text_segments[1].end_index = pii_matches[j].start_index
           /\ ~overlaps_with_span(OneSegmentToken(t.text_segments[1].start_index,
                                                  t.text_segments[1].end_index),
                                  pii_matches[j].start_index, pii_matches[j].end_index)
           /\ overlaps_with_span(t, pii_matches[j].start_index, pii_matches[j].end_index)

\* C10: in the list one get_pii_tokens call returns, every token appears at
\* most once, the entries are in traversal order (pages ascending, tokens in
\* page order), and each entry carries the index of the page of its token.
C10_ReturnedOnceInOrder ==
  pc = "marked" =>
    /\ \A i \in DOMAIN pii_tokens, j \in DOMAIN pii_tokens :
         i < j => Before(pii_tokens[i].token, pii_tokens[j].token)
    /\ \A i \in DOMAIN pii_tokens :
         pii_tokens[i].page_index = pii_tokens[i].token[1] - 1

\* a call returned two tokens of the first page and then one of the second
C10_Witness ==
  /\ pc = "marked"
  /\ Len(pii_tokens) >= 3
  /\ pii_tokens[1].page_index = 0
  /\ pii_tokens[2].page_index = 0
  /\ pii_tokens[Len(pii_tokens)].page_index = 1

\* the matches of ms that overlap a segment of token t
Overlapping(t, ms) == { j \in DOMAIN ms : Covers(t, ms[j]) }

\* C20: a marked token carries the type of the match with the smallest
\* start_index among all detected matches that overlap a segment of it.
C20_MarkedByEarliestMatch ==
  runs >= 1 =>
    \A r \in Marked(doc) :
      /\ Overlapping(TokenAt(doc, r), pii_matches) # {}
      /\ \E j \in Overlapping(TokenAt(doc, r), pii_matches) :
           /\ \A k \in Overlapping(TokenAt(doc, r), pii_matches) :
                pii_matches[j].start_index <= pii_matches[k].start_index
           /\ TokenAt(doc, r).detected_as = PIITypeValue(pii_matches[j].pii_type)

\* after one call: a token of two segments, each segment inside another
\* match, the matches of different types, carries the type of the earlier
C20_Witness ==
  /\ runs = 1
  /\ Len(pii_matches) = 2
  /\ pii_matches[1].pii_type # pii_matches[2].pii_type
  /\ pii_matches[1].start_index < pii_matches[2].start_index
  /\ \E i \in DOMAIN pii_tokens :
       LET t == TokenAt(doc, pii_tokens[i].token)
       IN  /\ Overlapping(t, pii_matches) = {1, 2}
           /\ Len(t.text_segments) = 2
           /\ t.detected_as = PIITypeValue(pii_matches[1].pii_type)

\* the tokens that the list returned by the call names
Returned(entries) == { entries[k].token : k \in DOMAIN entries }

\* C29: a call of get_pii_tokens changes nothing of the document but
\* detected_as of the tokens it returns: full_text, the pages and their order,
\* the tokens of each page and their order, and text, bbox and text_segments
\* of every token are as before, the matches are as before, and a token that
\* overlaps no match has detected_as = None after the call as before it.
C29_OnlyDetectedAsOfReturnedTokens ==
  [][runs' = runs + 1 =>
       /\ doc'.full_text = doc.full_text
       /\ Len(doc'.pages) = Len(doc.pages)
       /\ \A p \in DOMAIN doc.pages :
            /\ Len(doc'.pages[p].tokens) = Len(doc.pages[p].tokens)
            /\ [doc'.pages[p] EXCEPT !.tokens = doc.pages[p].tokens] = doc.pages[p]
       /\ \A r \in TokenRefs(doc) :
            /\ TokenAt(doc', r).text = TokenAt(doc, r).text
            /\ TokenAt(doc', r).bbox = TokenAt(doc, r).bbox
            /\ TokenAt(doc', r).text_segments = TokenAt(doc, r).text_segments
            /\ DOMAIN TokenAt(doc', r) = DOMAIN TokenAt(doc, r)
            /\ r \notin Returned(pii_tokens') =>
                 TokenAt(doc', r).detected_as = TokenAt(doc, r).detected_as
            /\ Overlapping(TokenAt(doc, r), pii_matches) = {} =>
                 /\ TokenAt(doc, r).detected_as = None
                 /\ TokenAt(doc', r).detected_as = None
       /\ pii_matches' = pii_matches]_vars

\* after one call of a two-page document: a token of two segments is marked
\* and returned, another token overlaps no match and is unmarked
C29_Witness ==
  /\ runs = 1
  /\ Len(doc.pages) = 2
  /\ \E r \in Returned(pii_tokens) :
       /\ Len(TokenAt(doc, r).text_segments) = 2
       /\ TokenAt(doc, r).detected_as # None
  /\ \E r \in TokenRefs(doc) :
       /\ Overlapping(TokenAt(doc, r), pii_matches) = {}
       /\ TokenAt(doc, r).detected_as = None

----------------------------------------------------------------------------
(* Specification of the OCR builder: google_doc_to_data from the response  *)
(* on (the parse of doc.pages and doc.text)                                *)

\* per page the text anchors of its tokens: those of AnchorLists, and a
\* token whose only segment is (100, 50) before a plain one; a segment that
\* starts below 0; empty segments around a plain token; a token of two
\* degenerate segments before a plain one; a token without segments
GoogleAnchorLists ==
  AnchorLists \cup
  { << <<TextSegment(100, 50)>>, <<TextSegment(0, 2)>> >>,
    << <<TextSegment(-1, 5)>> >>,
    << <<TextSegment(5, 5)>>, <<TextSegment(3, 5)>>, <<TextSegment(7, 7)>> >>,
    << <<TextSegment(4, 2), TextSegment(5, 3)>>, <<TextSegment(0, 2)>> >>,
    << <<>>, <<TextSegment(0, 5)>> >> }

GoogleResponses ==
  { [text |-> ResponseText, pages |-> pgs] :
      pgs \in SeqsUpTo({ [i \in 1..Len(as) |-> GToken(i, as[i])] : as \in GoogleAnchorLists },
                       MaxPages) }

InitGoogle ==
  /\ pc = "response"
  /\ raw \in GoogleResponses
  /\ doc = EmptyDoc
  /\ raw_matches = <<>>
  /\ pii_matches = <<>>
  /\ pii_tokens = <<>>
  /\ runs = 0
  /\ red = None
  /\ batch = None
  /\ work = None
  /\ ocr = None

GoogleDocToData ==
  /\ pc = "response"
  /\ doc' = google_doc_to_data(raw, PdfDoc(Len(raw.pages)))
  /\ pc' = "built"
  /\ UNCHANGED <<raw, raw_matches, pii_matches, pii_tokens, runs, red, batch,
               work, ocr>>

NextGoogle == GoogleDocToData

SpecGoogle == InitGoogle /\ [][NextGoogle]_vars

\* C11: every segment stored on every kept token of the built Document is a
\* valid range of full_text: 0 <= start_index < end_index <= len(full_text).
C11_StoredSegmentsValid ==
  pc = "built" =>
    \A r \in TokenRefs(doc) :
      \A k \in DOMAIN TokenAt(doc, r).text_segments :
        LET seg == TokenAt(doc, r).text_segments[k]
        IN  /\ 0 <= seg.start_index
            /\ seg.start_index < seg.end_index
            /\ seg.end_index <= Len(doc.full_text)

\* every segment of the anchor has start >= end
AllDegenerate(text_anchor) ==
  /\ text_anchor # <<>>
  /\ \A k \in DOMAIN text_anchor : text_anchor[k].start_index >= text_anchor[k].end_index

\* some segment of the anchor is a valid range of the text and holds a
\* character that is no whitespace
HasText(text_anchor, document_text) ==
  \E k \in DOMAIN text_anchor :
    /\ 0 <= text_anchor[k].start_index
    /\ text_anchor[k].start_index < text_anchor[k].end_index
    /\ text_anchor[k].end_index <= Len(document_text)
    /\ \E j \in text_anchor[k].start_index .. (text_anchor[k].end_index - 1) :
         ~IsSpace(document_text[j + 1])

\* token i of page p of the response is a token of page p of the Document
\* (a token is told by its box)
Kept(d, response, p, i) ==
  \E k \in DOMAIN d.pages[p].tokens :
    d.pages[p].tokens[k].bbox =
      convert_bounding_poly(response.pages[p][i].bounding_poly, 612, 792)

----------------------------------------------------------------------------
(* PIIDetector._PII_PATTERNS and _COMBINED_PII_PATTERN: each pattern is    *)
(* an operator that gives the index where a match starting at index i      *)
(* ends (NoMatch when the pattern does not match at i), found the way the  *)
(* regular expression engine finds it: greedy, giving back on failure      *)

CREDIT_CARD_NUMBER == "CREDIT_CARD_NUMBER"
PHONE_NUMBER == "PHONE_NUMBER"
EMAIL == "EMAIL"

NoMatch == -1

LowerLetters ==
  <<"a", "b", "c", "d", "e", "f", "g", "h", "i", "j", "k", "l", "m", "n", "o", "p", "q", "r", "s", "t", "u", "v", "w", "x", "y", "z">>

UpperLetters ==
  <<"A", "B", "C", "D", "E", "F", "G", "H", "I", "J", "K", "L", "M", "N", "O", "P", "Q", "R", "S", "T", "U", "V", "W", "X", "Y", "Z">>

\* the character at index i, "" outside the string
CharAt(s, i) == IF 0 <= i /\ i < Len(s) THEN s[i + 1] ELSE ""

IsAlpha(c) == \E k \in 1..Len(LowerLetters) : c = LowerLetters[k] \/ c = UpperLetters[k]

\* re.IGNORECASE: characters are compared in lower case
ToLower(c) ==
  IF \E k \in 1..Len(UpperLetters) : c = UpperLetters[k]
  THEN LowerLetters[CHOOSE k \in 1..Len(UpperLetters) : c = UpperLetters[k]]
  ELSE c

\* \w
IsWord(c) == IsAlpha(c) \/ IsDigit(c) \/ c = "_"

\* \b at index i
WordBoundary(s, i) == IsWord(CharAt(s, i - 1)) # IsWord(CharAt(s, i))

\* the character classes \d, \s, [a-zA-Z0-9._%+-], [a-zA-Z0-9.-], [a-zA-Z]
InClass(c, class) ==
  CASE class = "d" -> IsDigit(c)
    [] class = "s" -> IsSpace(c)
    [] class = "local" -> IsAlpha(c) \/ IsDigit(c) \/ c \in {".", "_", "%", "+", "-"}
    [] class = "domain" -> IsAlpha(c) \/ IsDigit(c) \/ c \in {".", "-"}
    [] class = "alpha" -> IsAlpha(c)

\* number of consecutive characters of the class from index i on
RECURSIVE Run(_, _, _)
Run(s, i, class) ==
  IF InClass(CharAt(s, i), class) THEN 1 + Run(s, i + 1, class) ELSE 0

\* \d{n} at index i
Digits(s, i, n) == \A k \in 0..(n - 1) : IsDigit(CharAt(s, i + k))

\* a literal of lower-case characters at index i
Literal(s, i, lit) == \A k \in 1..Len(lit) : ToLower(CharAt(s, i + k - 1)) = lit[k]

\* \d{3}-\d{2}-\d{4}
MatchSSN(s, i) ==
  IF /\ Digits(s, i, 3) /\ CharAt(s, i + 3) = "-"
     /\ Digits(s, i + 4, 2) /\ CharAt(s, i + 6) = "-"
     /\ Digits(s, i + 7, 4)
  THEN i + 11 ELSE NoMatch

\* \b\d{9} : the closing \b left out
MatchRoutingOpenEnd(s, i) ==
  IF WordBoundary(s, i) /\ Digits(s, i, 9) THEN i + 9 ELSE NoMatch

\* \b\d{9}\b
MatchRouting(s, i) ==
  IF WordBoundary(s, i) /\ Digits(s, i, 9) /\ WordBoundary(s, i + 9)
  THEN i + 9 ELSE NoMatch

\* \d{10,17}\b with k digits taken: one digit is given back until \b holds
RECURSIVE AccountBacktrack(_, _, _)
AccountBacktrack(s, i, k) ==
  IF k < 10 THEN NoMatch
  ELSE IF WordBoundary(s, i + k) THEN i + k
  ELSE AccountBacktrack(s, i, k - 1)

\* \b\d{10,17}\b
MatchAccount(s, i) ==
  IF WordBoundary(s, i) THEN AccountBacktrack(s, i, Min(Run(s, i, "d"), 17))
  ELSE NoMatch

\* credit score:\s*\d{3}
MatchCreditScore(s, i) ==
  IF Literal(s, i, ScoreLabel)
  THEN LET j == i + Len(ScoreLabel) + Run(s, i + Len(ScoreLabel), "s")
       IN  IF Digits(s, j, 3) THEN j + 3 ELSE NoMatch
  ELSE NoMatch

\* the alternatives of the rating group, in the order of the pattern
RatingWords ==
  << <<"v", "e", "r", "y", " ", "g", "o", "o", "d">>, <<"g", "o", "o", "d">>,
     <<"e", "x", "c", "e", "l", "l", "e", "n", "t">>, <<"f", "a", "i", "r">>,
     <<"p", "o", "o", "r">>, <<"b", "a", "d">> >>

\* (very good|good|excellent|fair|poor|bad) at index j: the first alternative
\* that matches
RECURSIVE RatingAlternative(_, _, _)
RatingAlternative(s, j, k) ==
  IF k > Len(RatingWords) THEN NoMatch
  ELSE IF Literal(s, j, RatingWords[k]) THEN j + Len(RatingWords[k])
  ELSE RatingAlternative(s, j, k + 1)

\* credit report:\s*(very good|good|excellent|fair|poor|bad)
MatchCreditScoreRating(s, i) ==
  IF Literal(s, i, ReportLabel)
  THEN RatingAlternative(s, i + Len(ReportLabel) + Run(s, i + Len(ReportLabel), "s"), 1)
  ELSE NoMatch

\* (?:\d{4}[ -]?){n}\d{4}\b : the separator is taken when it is there and
\* given back when the rest fails
RECURSIVE CardGroups(_, _, _)
CardGroups(s, i, n) ==
  IF ~Digits(s, i, 4) THEN NoMatch
  ELSE IF n = 0 THEN (IF WordBoundary(s, i + 4) THEN i + 4 ELSE NoMatch)
  ELSE IF CharAt(s, i + 4) \in {" ", "-"}
       THEN LET r == CardGroups(s, i + 5, n - 1)
            IN  IF r # NoMatch THEN r ELSE CardGroups(s, i + 4, n - 1)
       ELSE CardGroups(s, i + 4, n - 1)

\* \b(?:\d{4}[ -]?){3}\d{4}\b
MatchCreditCard(s, i) ==
  IF WordBoundary(s, i) THEN CardGroups(s, i, 3) ELSE NoMatch

\* the parts of the phone pattern
PhoneParts ==
  << [optional |-> {"("}], [digits |-> 3], [optional |-> {")"}],
     [optional |-> {"-", ".", " ", "\t", "\n"}], [digits |-> 3],
     [optional |-> {"-", ".", " ", "\t", "\n"}], [digits |-> 4] >>

\* the phone pattern from part k on, at index i
RECURSIVE PhoneFrom(_, _, _)
PhoneFrom(s, i, k) ==
  IF k > Len(PhoneParts) THEN i
  ELSE IF "digits" \in DOMAIN PhoneParts[k]
       THEN IF Digits(s, i, PhoneParts[k].digits)
            THEN PhoneFrom(s, i + PhoneParts[k].digits, k + 1)
            ELSE NoMatch
       ELSE IF CharAt(s, i) \in PhoneParts[k].optional
            THEN LET r == PhoneFrom(s, i + 1, k + 1)
                 IN  IF r # NoMatch THEN r ELSE PhoneFrom(s, i, k + 1)
            ELSE PhoneFrom(s, i, k + 1)

\* \(?\d{3}\)?[-.\s]?\d{3}[-.\s]?\d{4}
MatchPhone(s, i) == PhoneFrom(s, i, 1)

\* [a-zA-Z0-9.-]+\.[a-zA-Z]{2,} with k characters taken for the domain: one
\* is given back until a dot and two letters follow
RECURSIVE DomainBacktrack(_, _, _)
DomainBacktrack(s, j, k) ==
  IF k < 1 THEN NoMatch
  ELSE IF CharAt(s, j + k) = "." /\ Run(s, j + k + 1, "alpha") >= 2
       THEN j + k + 1 + Run(s, j + k + 1, "alpha")
       ELSE DomainBacktrack(s, j, k - 1)

\* [a-zA-Z0-9._%+-]+ with k characters taken: one is given back until the
\* rest matches
RECURSIVE LocalBacktrack(_, _, _)
LocalBacktrack(s, i, k) ==
  IF k < 1 THEN NoMatch
  ELSE LET r == IF CharAt(s, i + k) = "@"
                THEN DomainBacktrack(s, i + k + 1, Run(s, i + k + 1, "domain"))
                ELSE NoMatch
       IN  IF r # NoMatch THEN r ELSE LocalBacktrack(s, i, k - 1)

\* [a-zA-Z0-9._%+-]+@[a-zA-Z0-9.-]+\.[a-zA-Z]{2,}
MatchEmail(s, i) == LocalBacktrack(s, i, Run(s, i, "local"))

\* the pattern of one type at index i
PatternMatch(type, s, i) ==
  CASE type = SSN -> MatchSSN(s, i)
    [] type = ROUTING_NUMBER -> MatchRouting(s, i)
    [] type = ACCOUNT_NUMBER -> MatchAccount(s, i)
    [] type = CREDIT_SCORE -> MatchCreditScore(s, i)
    [] type = CREDIT_SCORE_RATING -> MatchCreditScoreRating(s, i)
    [] type = CREDIT_CARD_NUMBER -> MatchCreditCard(s, i)
    [] type = PHONE_NUMBER -> MatchPhone(s, i)
    [] type = EMAIL -> MatchEmail(s, i)

\* the keys of _PII_PATTERNS in the order of the dict
PatternOrder ==
  <<SSN, ROUTING_NUMBER, ACCOUNT_NUMBER, CREDIT_SCORE, CREDIT_SCORE_RATING,
    CREDIT_CARD_NUMBER, PHONE_NUMBER, EMAIL>>

\* the named alternation at index i: the first group, in the order given,
\* whose pattern matches
RECURSIVE Alternation(_, _, _, _)
Alternation(order, k, s, i) ==
  IF k > Len(order) THEN [lastgroup |-> None, end |-> NoMatch]
  ELSE IF PatternMatch(order[k], s, i) # NoMatch
       THEN [lastgroup |-> order[k], end |-> PatternMatch(order[k], s, i)]
       ELSE Alternation(order, k + 1, s, i)

\* the specific patterns (card, phone) placed before the digit-run patterns
CombinedCardAndPhoneFirst(s, i) ==
  Alternation(<<SSN, CREDIT_CARD_NUMBER, PHONE_NUMBER, ROUTING_NUMBER, ACCOUNT_NUMBER,
                CREDIT_SCORE, CREDIT_SCORE_RATING, EMAIL>>, 1, s, i)

\* _COMBINED_PII_PATTERN.match(s, i)
_COMBINED_PII_PATTERN(s, i) == Alternation(PatternOrder, 1, s, i)

\* _COMBINED_PII_PATTERN.finditer(s): the matches from left to right, the
\* scan going on where the last match ended
RECURSIVE FinditerFrom(_, _, _)
FinditerFrom(s, pos, found) ==
  IF pos > Len(s) THEN found
  ELSE LET m == _COMBINED_PII_PATTERN(s, pos)
       IN  IF m.end = NoMatch THEN FinditerFrom(s, pos + 1, found)
           ELSE FinditerFrom(s, IF m.end > pos THEN m.end ELSE pos + 1,
                             Append(found, PIIMatch(PySlice(s, pos, m.end), pos, m.end,
                                                    m.lastgroup)))

finditer(s) == FinditerFrom(s, 0, <<>>)

----------------------------------------------------------------------------
(* Specification of the combined scan: a text that holds one value that a  *)
(* per-type pattern accepts is scanned with the combined pattern           *)

\* the valid examples of the per-type pattern tests
ValidExamples ==
  { [pii_type |-> SSN, value |-> v] : v \in
      { <<"1", "2", "3", "-", "4", "5", "-", "6", "7", "8", "9">>,
        <<"9", "8", "7", "-", "6", "5", "-", "4", "3", "2", "1">>,
        <<"0", "0", "0", "-", "0", "0", "-", "0", "0", "0", "0">> } } \cup
  { [pii_type |-> ROUTING_NUMBER, value |-> v] : v \in
      { <<"1", "2", "3", "4", "5", "6", "7", "8", "9">>,
        <<"9", "8", "7", "6", "5", "4", "3", "2", "1">>,
        <<"0", "0", "0", "0", "0", "0", "0", "0", "0">> } } \cup
  { [pii_type |-> ACCOUNT_NUMBER, value |-> v] : v \in
      { <<"1", "2", "3", "4", "5", "6", "7", "8", "9", "0">>,
        <<"1", "2", "3", "4", "5", "6", "7", "8", "9", "0", "1", "2", "3", "4", "5", "6", "7">>,
        <<"1", "2", "3", "4", "5", "6", "7", "8", "9", "0", "1", "2", "3", "4", "5">> } } \cup
  { [pii_type |-> CREDIT_SCORE, value |-> v] : v \in
      { <<"c", "r", "e", "d", "i", "t", " ", "s", "c", "o", "r", "e", ":", " ", "7", "5", "0">>,
        <<"C", "r", "e", "d", "i", "t", " ", "S", "c", "o", "r", "e", ":", " ", "6", "8", "0">>,
        <<"c", "r", "e", "d", "i", "t", " ", "s", "c", "o", "r", "e", ":", "7", "2", "0">>,
        <<"C", "r", "e", "d", "i", "t", " ", "S", "c", "o", "r", "e", ":", " ", " ", "8", "0", "0">> } } \cup
  { [pii_type |-> CREDIT_SCORE_RATING, value |-> v] : v \in
      { <<"c", "r", "e", "d", "i", "t", " ", "r", "e", "p", "o", "r", "t", ":", " ", "g", "o", "o", "d">>,
        <<"C", "r", "e", "d", "i", "t", " ", "R", "e", "p", "o", "r", "t", ":", " ", "V", "e", "r", "y", " ", "G", "o", "o", "d">>,
        <<"C", "r", "e", "d", "i", "t", " ", "R", "e", "p", "o", "r", "t", ":", "E", "x", "c", "e", "l", "l", "e", "n", "t">>,
        <<"C", "r", "e", "d", "i", "t", " ", "R", "e", "p", "o", "r", "t", ":", " ", " ", " ", " ", " ", "f", "a", "i", "r">> } } \cup
  { [pii_type |-> CREDIT_CARD_NUMBER, value |-> v] : v \in
      { <<"1", "2", "3", "4", "5", "6", "7", "8", "9", "0", "1", "2", "3", "4", "5", "6">>,
        <<"1", "2", "3", "4", " ", "5", "6", "7", "8", " ", "9", "0", "1", "2", " ", "3", "4", "5", "6">>,
        <<"1", "2", "3", "4", "-", "5", "6", "7", "8", "-", "9", "0", "1", "2", "-", "3", "4", "5", "6">> } } \cup
  { [pii_type |-> PHONE_NUMBER, value |-> v] : v \in
      { <<"1", "2", "3", "4", "5", "6", "7", "8", "9", "0">>,
        <<"1", "2", "3", "-", "4", "5", "6", "-", "7", "8", "9", "0">>,
        <<"1", "2", "3", ".", "4", "5", "6", ".", "7", "8", "9", "0">>,
        <<"1", "2", "3", " ", "4", "5", "6", " ", "7", "8", "9", "0">>,
        <<"(", "1", "2", "3", ")", "4", "5", "6", "-", "7", "8", "9", "0">>,
        <<"(", "1", "2", "3", ")", " ", "4", "5", "6", "-", "7", "8", "9", "0">>,
        <<"(", "1", "2", "3", ")", "4", "5", "6", "7", "8", "9", "0">> } } \cup
  { [pii_type |-> EMAIL, value |-> v] : v \in
      { <<"u", "s", "e", "r", "@", "e", "x", "a", "m", "p", "l", "e", ".", "c", "o", "m">>,
        <<"t", "e", "s", "t", ".", "e", "m", "a", "i", "l", "@", "d", "o", "m", "a", "i", "n", ".", "o", "r", "g">>,
        <<"u", "s", "e", "r", "+", "t", "a", "g", "@", "e", "x", "a", "m", "p", "l", "e", ".", "c", "o", ".", "u", "k">>,
        <<"u", "s", "e", "r", "_", "n", "a", "m", "e", "@", "e", "x", "a", "m", "p", "l", "e", "-", "d", "o", "m", "a", "i", "n", ".", "c", "o", "m">>,
        <<"1", "2", "3", "@", "e", "x", "a", "m", "p", "l", "e", ".", "c", "o", "m">>,
        <<"u", "s", "e", "r", "@", "s", "u", "b", ".", "d", "o", "m", "a", "i", "n", ".", "c", "o", "m">> } }

\* what stands before and after the value in the text
Prefixes == { <<>>, <<"x", " ">>, <<"N", "o", ":", " ">> }
Suffixes == { <<>>, <<" ", "y">>, <<".">> }

InitScan ==
  /\ pc = "text"
  /\ \E ex \in ValidExamples, before \in Prefixes, after \in Suffixes :
       /\ raw = [pii_type |-> ex.pii_type, value |-> ex.value, start |-> Len(before)]
       /\ doc = DocumentData(<<>>, before \o ex.value \o after)
  /\ raw_matches = <<>>
  /\ pii_matches = <<>>
  /\ pii_tokens = <<>>
  /\ runs = 0
  /\ red = None
  /\ batch = None
  /\ work = None
  /\ ocr = None

Finditer ==
  /\ pc = "text"
  /\ raw_matches' = finditer(doc.full_text)
  /\ pc' = "scanned"
  /\ UNCHANGED <<raw, doc, pii_matches, pii_tokens, runs, red, batch,
               work, ocr>>

NextScan == Finditer

SpecScan == InitScan /\ [][NextScan]_vars

BareDigitRun(value) ==
  /\ Len(value) \in 10..17
  /\ \A k \in DOMAIN value : IsDigit(value[k])

----------------------------------------------------------------------------
(* Specification of the scan of digit runs: a text that holds a run of 1    *)
(* to MaxDigits digits between two delimiters is scanned                   *)

MaxDigits == 19

\* the run "1234567890123..." of n digits
DigitRun(n) ==
  [k \in 1..n |->
     <<"1", "2", "3", "4", "5", "6", "7", "8", "9", "0">>[((k - 1) % 10) + 1]]

\* what stands before the run: nothing, non-word characters, word characters,
\* and a routing number of its own followed by a space
RunPrefixes ==
  { <<>>, <<" ">>, <<"-">>, <<"#", ":">>, <<"x">>, <<"_">>, DigitRun(9) \o <<" ">> }

RunSuffixes == { <<>>, <<" ">>, <<".">>, <<"-">>, <<"x">>, <<"_">> }

InitRuns ==
  /\ pc = "text"
  /\ \E n \in 1..MaxDigits, before \in RunPrefixes, after \in RunSuffixes :
       /\ raw = [pii_type |-> None, value |-> DigitRun(n), start |-> Len(before)]
       /\ doc = DocumentData(<<>>, before \o DigitRun(n) \o after)
  /\ raw_matches = <<>>
  /\ pii_matches = <<>>
  /\ pii_tokens = <<>>
  /\ runs = 0
  /\ red = None
  /\ batch = None
  /\ work = None
  /\ ocr = None

NextRuns == Finditer

SpecRuns == InitRuns /\ [][NextRuns]_vars

\* the characters of s from index a up to b are a maximal run of digits that
\* non-word characters (or the ends of s) delimit
DelimitedDigitRun(s, a, b) ==
  /\ a < b
  /\ \A k \in a..(b - 1) : IsDigit(CharAt(s, k))
  /\ ~IsWord(CharAt(s, a - 1))
  /\ ~IsWord(CharAt(s, b))

\* the span a pattern of the table gives at index i has the digit-run length
\* of its type and is a delimited maximal run
RunOfItsLength(pii_type, s, a, b) ==
  /\ DelimitedDigitRun(s, a, b)
  /\ pii_type = ROUTING_NUMBER => b - a = 9
  /\ pii_type = ACCOUNT_NUMBER => b - a >= 10 /\ b - a <= 17

\* C23: the length of a digit run decides between routing and account
\* number: whatever the routing pattern accepts, alone or in the combined
\* scan, is a maximal digit run of exactly 9 digits between non-word
\* characters, whatever the account pattern accepts is such a run of 10 to 17
\* digits, and so no part of a longer run is reported as either.
C23_DigitRunLengthDecides ==
  pc = "scanned" =>
    /\ \A k \in DOMAIN raw_matches :
         raw_matches[k].pii_type \in {ROUTING_NUMBER, ACCOUNT_NUMBER} =>
           RunOfItsLength(raw_matches[k].pii_type, doc.full_text,
                          raw_matches[k].start_index, raw_matches[k].end_index)
    /\ \A pii_type \in {ROUTING_NUMBER, ACCOUNT_NUMBER} :
         \A i \in 0..Len(doc.full_text) :
           PatternMatch(pii_type, doc.full_text, i) # NoMatch =>
             RunOfItsLength(pii_type, doc.full_text, i,
                            PatternMatch(pii_type, doc.full_text, i))

\* "123456789 " before a run of 18 digits: the routing number is reported,
\* and nothing of the longer run is reported as routing or account number
C23_Witness ==
  /\ pc = "scanned"
  /\ raw.start = 10
  /\ Len(raw.value) = 18
  /\ Len(doc.full_text) = 28
  /\ raw_matches # <<>>
  /\ raw_matches[1].pii_type = ROUTING_NUMBER
  /\ raw_matches[1].start_index = 0
  /\ \A k \in DOMAIN raw_matches :
       k > 1 => raw_matches[k].pii_type \notin {ROUTING_NUMBER, ACCOUNT_NUMBER}

----------------------------------------------------------------------------
(* PIIDetector.extract_pii_matches: the matches of a text are refined and   *)
(* sorted (lines 137-140, from the match objects of the scan on)            *)

MaxPieces == 3

\* what the texts are put together from: a labelled score, a labelled
\* rating, a social security number and a word
Pieces ==
  { <<"c", "r", "e", "d", "i", "t", " ", "s", "c", "o", "r", "e", ":", " ",
      "8", "0", "0">>,
    <<"c", "r", "e", "d", "i", "t", " ", "r", "e", "p", "o", "r", "t", ":",
      "g", "o", "o", "d">>,
    <<"1", "2", "3", "-", "4", "5", "-", "6", "7", "8", "9">>,
    <<"x">> }

Separators == { <<>>, <<" ">> }

\* the texts of at most n pieces, each piece after a separator
RECURSIVE DocumentTexts(_)
DocumentTexts(n) ==
  IF n = 0 THEN { <<>> }
  ELSE DocumentTexts(n - 1) \cup
       { t \o sep \o p : t \in DocumentTexts(n - 1), sep \in Separators,
                         p \in Pieces }

\* the list with m put behind the elements whose start_index is not greater
\* (sorted is in ascending order of start_index)
SortedInsert(sorted, m) ==
  LET k == Cardinality({ j \in DOMAIN sorted :
                           sorted[j].start_index <= m.start_index })
  IN  SubSeq(sorted, 1, k) \o <<m>> \o SubSeq(sorted, k + 1, Len(sorted))

RECURSIVE SortFrom(_, _, _)
SortFrom(ms, i, sorted) ==
  IF i > Len(ms) THEN sorted
  ELSE SortFrom(ms, i + 1, SortedInsert(sorted, ms[i]))

\* the list in reverse: sort(..., reverse=True)
SortByStartReversed(ms) ==
  LET sorted == SortFrom(ms, 1, <<>>)
  IN  [i \in DOMAIN sorted |-> sorted[Len(sorted) + 1 - i]]

\* pii_matches.sort(key=lambda x: x.start_index): ascending and stable
SortByStart(ms) == SortFrom(ms, 1, <<>>)

InitExtract ==
  /\ pc = "extracted"
  /\ raw = <<>>
  /\ \E text \in DocumentTexts(MaxPieces) :
       /\ doc = DocumentData(<<>>, text)
       /\ raw_matches = finditer(text)
       /\ pii_matches = finditer(text)
  /\ pii_tokens = <<>>
  /\ runs = 0
  /\ red = None
  /\ batch = None
  /\ work = None
  /\ ocr = None

SortPiiMatches ==
  /\ pc = "refined"
  /\ pii_matches' = SortByStart(pii_matches)
  /\ pc' = "returned"
  /\ UNCHANGED <<raw, doc, raw_matches, pii_tokens, runs, red, batch,
               work, ocr>>

NextExtract == RefinePiiMatches \/ SortPiiMatches

SpecExtract == InitExtract /\ [][NextExtract]_vars

\* the refined matches, as a bag would hold them: how often m is in ms
Count(ms, m) == Cardinality({ i \in DOMAIN ms : ms[i] = m })

\* C22: the returned list holds the refined matches in ascending order of
\* start_index, and of two matches with the same start_index the shorter one
\* comes first.
C22_SortedByStart ==
  pc = "returned" =>
    /\ Len(pii_matches) = Len(raw_matches)
    /\ \A i \in DOMAIN raw_matches :
         Count(pii_matches, RefineMatch(raw_matches[i])) =
           Count(_refine_pii_matches(raw_matches), RefineMatch(raw_matches[i]))
    /\ \A i, j \in DOMAIN pii_matches :
         i < j =>
           /\ pii_matches[i].start_index <= pii_matches[j].start_index
           /\ pii_matches[i].start_index = pii_matches[j].start_index =>
                pii_matches[i].end_index <= pii_matches[j].end_index

\* three matches returned in order, the first and the last of them refined
C22_Witness ==
  /\ pc = "returned"
  /\ Len(pii_matches) = 3
  /\ pii_matches[1].pii_type = CREDIT_SCORE
  /\ pii_matches[1].start_index > raw_matches[1].start_index
  /\ pii_matches[2].pii_type = SSN
  /\ pii_matches[3].pii_type = CREDIT_SCORE_RATING
  /\ pii_matches[3].start_index > raw_matches[3].start_index
  /\ pii_matches[1].start_index < pii_matches[2].start_index
  /\ pii_matches[2].start_index < pii_matches[3].start_index

\* C28: the matches of a text are pairwise non-overlapping half-open spans
\* and no two of them have the same start_index, as the scan gives them,
\* after refinement and as they are returned.
C28_MatchesDisjoint ==
  pc \in {"extracted", "refined", "returned"} =>
    \A i, j \in DOMAIN pii_matches :
      i # j =>
        /\ pii_matches[i].start_index # pii_matches[j].start_index
        /\ \/ pii_matches[i].end_index <= pii_matches[j].start_index
           \/ pii_matches[j].end_index <= pii_matches[i].start_index

\* a rating and a social security number that follows it without a gap, both
\* returned, the rating refined
C28_Witness ==
  /\ pc = "returned"
  /\ Len(pii_matches) = 2
  /\ pii_matches[1].pii_type = CREDIT_SCORE_RATING
  /\ pii_matches[2].pii_type = SSN
  /\ raw_matches[1].start_index > 0
  /\ pii_matches[1].start_index > raw_matches[1].start_index
  /\ pii_matches[1].end_index = pii_matches[2].start_index

----------------------------------------------------------------------------
(* PIIDetector.extract_pii_matches as a whole, from the document text on:   *)
(* the scan, the PIIMatch objects made of its matches, the refinement and   *)
(* the sort                                                                 *)

\* the fields of the dataclass PIIMatch: the keywords its constructor takes
PIIMatchFields == {"content", "start_index", "end_index", "pii_type"}

\* PIIMatch(**kwargs): the generated __init__ raises TypeError for a keyword
\* that is no field and for a field that is not given
PIIMatchInit(kwargs) ==
  IF DOMAIN kwargs = PIIMatchFields
  THEN [error |-> None, value |-> kwargs]
  ELSE [error |-> "TypeError", value |-> kwargs]

\* the for loop of _extract_direct_piis over the matches of the scan: one
\* PIIMatch is constructed for each, and the first constructor that raises
\* ends the call
RECURSIVE ExtractLoop(_, _, _)
ExtractLoop(found, i, matches) ==
  IF i > Len(found) THEN [error |-> None, pii_matches |-> matches]
  ELSE LET made == PIIMatchInit(found[i])
       IN  IF made.error # None
           THEN [error |-> made.error, pii_matches |-> matches]
           ELSE ExtractLoop(found, i + 1, Append(matches, made.value))

_extract_direct_piis(document_text) ==
  ExtractLoop(finditer(document_text), 1, <<>>)

extract_pii_matches(document_text) ==
  LET extracted == _extract_direct_piis(document_text)
  IN  IF extracted.error # None THEN extracted
      ELSE [error |-> None,
            pii_matches |->
              SortByStart(_refine_pii_matches(extracted.pii_matches))]

InitDetect ==
  /\ pc = "document_text"
  /\ raw = <<>>
  /\ \E text \in DocumentTexts(MaxPieces) : doc = DocumentData(<<>>, text)
  /\ raw_matches = <<>>
  /\ pii_matches = <<>>
  /\ pii_tokens = <<>>
  /\ runs = 0
  /\ red = None
  /\ batch = None
  /\ work = None
  /\ ocr = None

ExtractPiiMatches ==
  /\ pc = "document_text"
  /\ LET result == extract_pii_matches(doc.full_text)
     IN  /\ pii_matches' = result.pii_matches
         /\ pc' = IF result.error = None THEN "returned" ELSE result.error
  /\ UNCHANGED <<raw, doc, raw_matches, pii_tokens, runs, red, batch,
               work, ocr>>

NextDetect == ExtractPiiMatches

SpecDetect == InitDetect /\ [][NextDetect]_vars

\* C24: for every document text, also one that holds a match, the call of
\* extract_pii_matches returns its list of matches: it never ends in an error.
C24_DetectionReturns ==
  pc # "document_text" => pc = "returned"

----------------------------------------------------------------------------
(* The marking step of get_pii_tokens (lines 181-189) run token by token   *)
(* in any order: for every token the search of the first overlapping match *)
(* and the write of detected_as are two steps, and the steps of different  *)
(* tokens interleave freely                                                 *)

\* a native document of two pages and an OCR document of two pages, four
\* tokens each
AnyOrderDocs ==
  { pymupdf_to_data(<< <<WordInfo(1, <<"a">>), WordInfo(2, <<"b", "c">>)>>,
                       <<WordInfo(1, <<"b", "c">>), WordInfo(2, <<"a">>)>> >>),
    google_doc_to_data(
      [text |-> ResponseText,
       pages |-> << <<GToken(1, <<TextSegment(0, 1), TextSegment(2, 4)>>),
                      GToken(2, <<TextSegment(3, 9)>>)>>,
                    <<GToken(1, <<TextSegment(0, 2), TextSegment(4, 2)>>),
                      GToken(2, <<TextSegment(3, 5)>>)>> >>],
      PdfDoc(2)) }

\* a match that has marked a token is used up: the step looks only at the
\* matches that no other marked token of the document overlaps
TokenStepConsumesMatch(d, r, matches) ==
  LET Free(pii) ==
        ~\E q \in TokenRefs(d) :
            /\ q # r
            /\ TokenAt(d, q).detected_as # None
            /\ overlaps_with_span(TokenAt(d, q), pii.start_index, pii.end_index)
  IN  MatchLoop(TokenAt(d, r), SelectSeq(matches, Free), 1)

\* the body of "for token in page.tokens" for the token at r
TokenStep(d, r, matches) == MatchLoop(TokenAt(d, r), matches, 1)

InitMarkAny ==
  /\ pc = "marking"
  /\ raw = <<>>
  /\ doc \in AnyOrderDocs
  /\ pii_matches \in MatchesOf(doc)
  /\ raw_matches = pii_matches
  /\ pii_tokens = <<>>
  /\ runs = 0
  /\ red = None
  /\ batch = None
  /\ work = [doc_data |-> doc,
             step |-> [r \in TokenRefs(doc) |->
                         [at |-> "todo", token |-> TokenAt(doc, r),
                          appended |-> FALSE]]]
  /\ ocr = None

\* lines 182-183 for one token: the loop over the matches up to the first
\* one that overlaps, and the test of detected_as
FindMatch ==
  /\ pc = "marking"
  /\ \E r \in DOMAIN work.step :
       /\ work.step[r].at = "todo"
       /\ LET found == TokenStep(doc, r, pii_matches)
          IN  work' = [work EXCEPT !.step[r] =
                         [at |-> "found", token |-> found.token,
                          appended |-> found.appended]]
  /\ UNCHANGED <<pc, raw, doc, raw_matches, pii_matches, pii_tokens, runs, red,
                 batch, ocr>>

\* lines 184-185 for one token: detected_as is written and the token is
\* appended to pii_tokens
MarkToken ==
  /\ pc = "marking"
  /\ \E r \in DOMAIN work.step :
       /\ work.step[r].at = "found"
       /\ doc' = [doc EXCEPT !.pages[r[1]].tokens[r[2]] = work.step[r].token]
       /\ pii_tokens' = IF work.step[r].appended
                        THEN Append(pii_tokens, PiiTokenEntry(r[1] - 1, r))
                        ELSE pii_tokens
       /\ work' = [work EXCEPT !.step[r].at = "done"]
  /\ UNCHANGED <<pc, raw, raw_matches, pii_matches, runs, red, batch, ocr>>

\* every token has had its step: return pii_tokens
ReturnPiiTokens ==
  /\ pc = "marking"
  /\ \A r \in DOMAIN work.step : work.step[r].at = "done"
  /\ pc' = "marked"
  /\ runs' = runs + 1
  /\ UNCHANGED <<raw, doc, raw_matches, pii_matches, pii_tokens, red, batch,
                 work, ocr>>

NextMarkAny ==
  \/ FindMatch
  \/ MarkToken
  \/ ReturnPiiTokens

SpecMarkAny == InitMarkAny /\ [][NextMarkAny]_vars

\* C25: the marking does not depend on the order of the tokens: when the
\* marking step has been run for every token, in whatever order and
\* interleaving, every token has the detected_as that the sequential loop of
\* get_pii_tokens gives it and the same tokens are marked and returned.
C25_MarkingOrderIndependent ==
  pc = "marked" =>
    LET sequential == get_pii_tokens(work.doc_data, pii_matches)
    IN  /\ \A r \in TokenRefs(doc) :
             TokenAt(doc, r).detected_as = TokenAt(sequential.doc, r).detected_as
        /\ Marked(doc) = Marked(sequential.doc)
        /\ Returned(pii_tokens) = Returned(sequential.pii_tokens)
        /\ Len(pii_tokens) = Len(sequential.pii_tokens)

\* a run in which the tokens were marked in another order than the
\* sequential loop's: three tokens are marked, by two matches of different
\* types, and the first token appended is not the first of the document
C25_Witness ==
  /\ pc = "marked"
  /\ Len(pii_tokens) = 3
  /\ Len(pii_matches) = 2
  /\ pii_matches[1].pii_type # pii_matches[2].pii_type
  /\ \E r \in Marked(doc) : Before(r, pii_tokens[1].token)
  /\ \E r, q \in Marked(doc) : TokenAt(doc, r).detected_as # TokenAt(doc, q).detected_as

----------------------------------------------------------------------------
(* PDFAdapter.google_doc_to_data, lines 122-142: the OCR response is taken *)
(* from the cache file of the PDF or requested from the service and        *)
(* written to the cache file                                               *)

MaxCalls == 3

\* source PDFs: two directories hold a file of the same name
PdfPaths ==
  { [dir |-> "in1", stem |-> "a", ext |-> ".pdf"],
    [dir |-> "in2", stem |-> "a", ext |-> ".pdf"],
    [dir |-> "in1", stem |-> "b", ext |-> ".pdf"] }

\* what the file at a path holds: the two files named a.pdf differ
FileContent(file_path) == IF file_path.dir = "in2" THEN "B" ELSE "A"

\* the Document the service returns for the content of a file (one page,
\* with other tokens for other content)
ServiceDocument(content) ==
  [text |-> ResponseText,
   pages |-> IF content = "A"
             THEN << <<GToken(1, <<TextSegment(0, 2)>>), GToken(2, <<TextSegment(3, 5)>>)>> >>
             ELSE << <<GToken(1, <<TextSegment(0, 1), TextSegment(2, 4)>>)>> >>]

\* request_google_ocr(file_path): the file is read and sent to the service
request_google_ocr(file_path) == ServiceDocument(FileContent(file_path))

\* os.path.join(cache_dir, splitext(basename(pdf_path))[0] + ".json"): the
\* cache directory is fixed, so the file name alone names the cache file
cache_path(pdf_path) == pdf_path.stem

\* a cache file that does not exist: no document, written for no PDF
NoFile == [isfile |-> FALSE, document |-> [text |-> <<>>, pages |-> <<>>],
           source |-> [dir |-> "", stem |-> "", ext |-> ""]]

\* save_document_as_json(document, output_path); source records the PDF the
\* document was requested for
CacheFile(document, pdf_path) ==
  [isfile |-> TRUE, document |-> document, source |-> pdf_path]

\* the miss of the cache without the save: the response is used and dropped
ObtainDocumentNoSave(o, pdf_path, use_cache) ==
  LET file == o.cache[cache_path(pdf_path)]
      requested == request_google_ocr(pdf_path)
  IN  IF use_cache /\ file.isfile
      THEN [cache |-> o.cache, requests |-> o.requests,
            document |-> file.document, source |-> file.source, loaded |-> TRUE]
      ELSE [cache |-> IF use_cache THEN o.cache
                      ELSE [o.cache EXCEPT ![cache_path(pdf_path)] =
                              CacheFile(requested, pdf_path)],
            requests |-> Append(o.requests, pdf_path),
            document |-> requested, source |-> pdf_path, loaded |-> FALSE]

\* lines 129-142: with use_cache the cache file is loaded when it exists;
\* in every other case the service is requested and the response is saved
ObtainDocument(o, pdf_path, use_cache) ==
  LET file == o.cache[cache_path(pdf_path)]
      requested == request_google_ocr(pdf_path)
  IN  IF use_cache /\ file.isfile
      THEN [cache |-> o.cache, requests |-> o.requests,
            document |-> file.document, source |-> file.source, loaded |-> TRUE]
      ELSE [cache |-> [o.cache EXCEPT ![cache_path(pdf_path)] =
                         CacheFile(requested, pdf_path)],
            requests |-> Append(o.requests, pdf_path),
            document |-> requested, source |-> pdf_path, loaded |-> FALSE]

\* the cache directory is empty, or holds the response of an earlier run for
\* in1/b.pdf
InitCache ==
  /\ pc = "ready"
  /\ raw = <<>>
  /\ doc = EmptyDoc
  /\ raw_matches = <<>>
  /\ pii_matches = <<>>
  /\ pii_tokens = <<>>
  /\ runs = 0
  /\ red = None
  /\ batch = None
  /\ work = None
  /\ \E earlier \in BOOLEAN :
       ocr = [cache |-> [c \in { cache_path(pdf_path) : pdf_path \in PdfPaths } |->
                           IF earlier /\ c = "b"
                           THEN CacheFile(request_google_ocr(
                                            [dir |-> "in1", stem |-> "b", ext |-> ".pdf"]),
                                          [dir |-> "in1", stem |-> "b", ext |-> ".pdf"])
                           ELSE NoFile],
              requests |-> <<>>, calls |-> <<>>]

\* one call google_doc_to_data(pdf_doc, pdf_path, use_cache)
GoogleDocToDataCall ==
  /\ Len(ocr.calls) < MaxCalls
  /\ \E pdf_path \in PdfPaths, use_cache \in BOOLEAN :
       LET got == ObtainDocument(ocr, pdf_path, use_cache)
       IN  /\ ocr' = [cache |-> got.cache, requests |-> got.requests,
                      calls |-> Append(ocr.calls,
                                  [pdf_path |-> pdf_path, use_cache |-> use_cache,
                                   loaded |-> got.loaded, source |-> got.source])]
           /\ raw' = got.document
           /\ doc' = google_doc_to_data(got.document,
                                        PdfDoc(Len(ServiceDocument(FileContent(pdf_path)).pages)))
  /\ pc' = "built"
  /\ UNCHANGED <<raw_matches, pii_matches, pii_tokens, runs, red, batch, work>>

NextCache == GoogleDocToDataCall

SpecCache == InitCache /\ [][NextCache]_vars

\* the call made by the step
LastCall(o) == o.calls[Len(o.calls)]

\* C26: a call with use_cache=True requests the service only when the cache
\* file of its pdf_path does not exist; and once a call for a pdf_path has
\* completed (it has written or found the cache file), every later call with
\* use_cache=True for that pdf_path loads the cache file and makes no request.
C26_CacheHitMakesNoRequest ==
  [][(Len(ocr'.calls) = Len(ocr.calls) + 1 /\ LastCall(ocr').use_cache) =>
       /\ ocr'.requests # ocr.requests
            <=> ~ocr.cache[cache_path(LastCall(ocr').pdf_path)].isfile
       /\ (\E j \in DOMAIN ocr.calls :
             ocr.calls[j].pdf_path = LastCall(ocr').pdf_path) =>
            /\ ocr'.requests = ocr.requests
            /\ LastCall(ocr').loaded
            /\ raw' = ocr.cache[cache_path(LastCall(ocr').pdf_path)].document]_vars

\* in1/a.pdf was requested by the first call with use_cache=True, and the
\* second and third call for it loaded the cache: one request in all
C26_Witness ==
  /\ Len(ocr.calls) = 3
  /\ \A k \in 1..3 :
       /\ ocr.calls[k].use_cache
       /\ ocr.calls[k].pdf_path = [dir |-> "in1", stem |-> "a", ext |-> ".pdf"]
  /\ ~ocr.calls[1].loaded
  /\ ocr.calls[2].loaded
  /\ ocr.calls[3].loaded
  /\ Len(ocr.requests) = 1

\* C27: a cached response is only used for the source it was produced from:
\* the Document of a call with use_cache=True is the service's response for
\* the PDF at its own pdf_path, never the cached response of another PDF
\* (another path or another content).
C27_CacheOnlyForItsSource ==
  \A k \in DOMAIN ocr.calls :
    ocr.calls[k].use_cache =>
      /\ ocr.calls[k].source = ocr.calls[k].pdf_path
      /\ k = Len(ocr.calls) => raw = request_google_ocr(ocr.calls[k].pdf_path)

----------------------------------------------------------------------------
(* PDFRedactor._apply_redactions: the marked tokens are grouped by page,   *)
(* each page's boxes are validated and queued, the page is committed, and  *)
(* the document is saved                                                   *)

MaxPiiTokens == 3

\* one entry of the record of the calls made on the PDF
LogEntry(o, page_idx, g) == [op |-> o, page |-> page_idx, token |-> g]

\* for token in pii_tokens: pii_by_page[token.page_index].append(token); the
\* dict keeps its keys in the order of their first insertion, a token is
\* named by its place g in pii_tokens
RECURSIVE GroupLoop(_, _, _)
GroupLoop(tokens, g, pii_by_page) ==
  IF g > Len(tokens) THEN pii_by_page
  ELSE LET page_idx == tokens[g].page_index
       IN  GroupLoop(tokens, g + 1,
             IF \E k \in DOMAIN pii_by_page : pii_by_page[k].page_idx = page_idx
             THEN [k \in DOMAIN pii_by_page |->
                     IF pii_by_page[k].page_idx = page_idx
                     THEN [pii_by_page[k] EXCEPT !.tokens = Append(@, g)]
                     ELSE pii_by_page[k]]
             ELSE Append(pii_by_page, [page_idx |-> page_idx, tokens |-> <<g>>]))

\* the test with x0 <= x1 and y0 <= y1: empty boxes pass
ValidBoxClosed(bbox, page) ==
  /\ 0 <= bbox.x0 /\ bbox.x0 <= bbox.x1 /\ bbox.x1 <= page.width
  /\ 0 <= bbox.y0 /\ bbox.y0 <= bbox.y1 /\ bbox.y1 <= page.height

\* 0 <= x0 < x1 <= page_width and 0 <= y0 < y1 <= page_height
ValidBox(bbox, page) ==
  /\ 0 <= bbox.x0 /\ bbox.x0 < bbox.x1 /\ bbox.x1 <= page.width
  /\ 0 <= bbox.y0 /\ bbox.y0 < bbox.y1 /\ bbox.y1 <= page.height

\* page.apply_redactions(): the queued boxes of the page are applied
apply_redactions(r, page_idx) ==
  [r EXCEPT !.pdf_doc[page_idx + 1] =
              [@ EXCEPT !.redacted = @ \o r.pdf_doc[page_idx + 1].annots,
                        !.annots = <<>>],
            !.log = Append(@, LogEntry("commit", page_idx, 0))]

\* apply_redactions called inside the token loop, after every queued box
AddAndApply(r, page_idx, g) ==
  apply_redactions(
    [r EXCEPT !.pdf_doc[page_idx + 1].annots = Append(@, r.pii_tokens[g].bbox),
              !.log = Append(@, LogEntry("queue", page_idx, g))],
    page_idx)

\* page.add_redact_annot(rect, fill=(0, 0, 0)): the box is queued on the page
add_redact_annot(r, page_idx, g) ==
  [r EXCEPT !.pdf_doc[page_idx + 1].annots = Append(@, r.pii_tokens[g].bbox),
            !.log = Append(@, LogEntry("queue", page_idx, g))]

\* pdf_doc.save(output_path, garbage=4, deflate=True): the file holds what
\* has been applied to each page
save(r) ==
  [r EXCEPT !.saved = <<[i \in DOMAIN r.pdf_doc |-> r.pdf_doc[i].redacted]>>,
            !.log = Append(@, LogEntry("save", 0, 0))]

\* a page of pdf_doc: portrait pages with landscape pages in between
PdfPage(i) ==
  [width |-> IF i % 2 = 1 THEN 612 ELSE 792,
   height |-> IF i % 2 = 1 THEN 792 ELSE 612,
   annots |-> <<>>, redacted |-> <<>>]

\* boxes of marked tokens: inside every page, too wide for a portrait page,
\* and empty
MarkedBoxes ==
  { BoundingBox(5, 5, 100, 20), BoundingBox(5, 5, 700, 20), BoundingBox(50, 5, 50, 20) }

\* marked tokens: page_index and bbox (PageData.Token)
MarkedTokens == { [page_index |-> p, bbox |-> b] : p \in 0..MaxPages, b \in MarkedBoxes }

InitRedact ==
  /\ pc = "apply"
  /\ raw = <<>>
  /\ doc = EmptyDoc
  /\ raw_matches = <<>>
  /\ pii_matches = <<>>
  /\ pii_tokens = <<>>
  /\ runs = 0
  /\ \E n \in 1..MaxPages, tokens \in SeqsUpTo(MarkedTokens, MaxPiiTokens) :
       red = [pdf_doc |-> [i \in 1..n |-> PdfPage(i)], pii_tokens |-> tokens,
              pii_by_page |-> <<>>, pi |-> 1, ti |-> 1, log |-> <<>>, saved |-> <<>>]
  /\ batch = None
  /\ work = None
  /\ ocr = None

\* lines 118-124
GroupTokens ==
  /\ pc = "apply"
  /\ red' = [red EXCEPT !.pii_by_page = GroupLoop(red.pii_tokens, 1, <<>>)]
  /\ pc' = "page"
  /\ UNCHANGED <<raw, doc, raw_matches, pii_matches, pii_tokens, runs, batch,
               work, ocr>>

\* break in place of continue: the page loop is left at the skipped group
SkipBreaks(r, page_idx) ==
  red' = [r EXCEPT !.pi = Len(r.pii_by_page) + 1,
                   !.log = Append(@, LogEntry("skip", page_idx, 0))]

\* logger.warning(...); continue: the loop goes on with the next group
SkipContinues(r, page_idx) ==
  red' = [r EXCEPT !.pi = @ + 1,
                   !.log = Append(@, LogEntry("skip", page_idx, 0))]

\* if page_idx >= len(pdf_doc): warning, continue
SkipPage ==
  /\ pc = "page"
  /\ red.pi <= Len(red.pii_by_page)
  /\ red.pii_by_page[red.pi].page_idx >= Len(red.pdf_doc)
  /\ SkipContinues(red, red.pii_by_page[red.pi].page_idx)
  /\ UNCHANGED <<pc, raw, doc, raw_matches, pii_matches, pii_tokens, runs, batch,
               work, ocr>>

\* page = pdf_doc[page_idx]
EnterPage ==
  /\ pc = "page"
  /\ red.pi <= Len(red.pii_by_page)
  /\ red.pii_by_page[red.pi].page_idx < Len(red.pdf_doc)
  /\ red' = [red EXCEPT !.ti = 1]
  /\ pc' = "token"
  /\ UNCHANGED <<raw, doc, raw_matches, pii_matches, pii_tokens, runs, batch,
               work, ocr>>

\* the warning is raised as an error: the call ends at the rejected box
RejectRaises(r, page_idx, g) ==
  /\ red' = [r EXCEPT !.log = Append(@, LogEntry("reject", page_idx, g))]
  /\ pc' = "raised"

\* logger.warning(...); continue
RejectContinues(r, page_idx, g) ==
  /\ red' = [r EXCEPT !.log = Append(@, LogEntry("reject", page_idx, g)), !.ti = @ + 1]
  /\ pc' = "token"

\* a token whose box fails the test
RejectBox ==
  /\ pc = "token"
  /\ red.ti <= Len(red.pii_by_page[red.pi].tokens)
  /\ LET page_idx == red.pii_by_page[red.pi].page_idx
         g == red.pii_by_page[red.pi].tokens[red.ti]
     IN  /\ ~ValidBox(red.pii_tokens[g].bbox, red.pdf_doc[page_idx + 1])
         /\ RejectContinues(red, page_idx, g)
  /\ UNCHANGED <<raw, doc, raw_matches, pii_matches, pii_tokens, runs, batch,
               work, ocr>>

\* a token whose box passes the test
QueueBox ==
  /\ pc = "token"
  /\ red.ti <= Len(red.pii_by_page[red.pi].tokens)
  /\ LET page_idx == red.pii_by_page[red.pi].page_idx
         g == red.pii_by_page[red.pi].tokens[red.ti]
     IN  /\ ValidBox(red.pii_tokens[g].bbox, red.pdf_doc[page_idx + 1])
         /\ red' = [add_redact_annot(red, page_idx, g) EXCEPT !.ti = @ + 1]
  /\ UNCHANGED <<pc, raw, doc, raw_matches, pii_matches, pii_tokens, runs, batch,
               work, ocr>>

\* after the token loop: page.apply_redactions()
CommitPage ==
  /\ pc = "token"
  /\ red.ti > Len(red.pii_by_page[red.pi].tokens)
  /\ red' = [apply_redactions(red, red.pii_by_page[red.pi].page_idx) EXCEPT !.pi = @ + 1]
  /\ pc' = "page"
  /\ UNCHANGED <<raw, doc, raw_matches, pii_matches, pii_tokens, runs, batch,
               work, ocr>>

\* after the page loop: pdf_doc.save(...)
SavePdf ==
  /\ pc = "page"
  /\ red.pi > Len(red.pii_by_page)
  /\ red' = save(red)
  /\ pc' = "done"
  /\ UNCHANGED <<raw, doc, raw_matches, pii_matches, pii_tokens, runs, batch,
               work, ocr>>

NextRedact ==
  \/ GroupTokens
  \/ SkipPage
  \/ EnterPage
  \/ RejectBox
  \/ QueueBox
  \/ CommitPage
  \/ SavePdf

SpecRedact == InitRedact /\ [][NextRedact]_vars

\* the places of the log entries of one kind for page p
Entries(o, p) == { n \in DOMAIN red.log : red.log[n].op = o /\ red.log[n].page = p }

\* the places of the log entries of one kind for token g
TokenEntries(o, g) == { n \in DOMAIN red.log : red.log[n].op = o /\ red.log[n].token = g }

\* page_index p is a page of the PDF
IsPdfPage(p) == 0 <= p /\ p < Len(red.pdf_doc)

\* the box of token g lies inside the page of the PDF that the token names
BoxInsideItsPage(g) ==
  LET b == red.pii_tokens[g].bbox
      page == red.pdf_doc[red.pii_tokens[g].page_index + 1]
  IN  /\ IsPdfPage(red.pii_tokens[g].page_index)
      /\ 0 <= b.x0 /\ b.x0 < b.x1 /\ b.x1 <= page.width
      /\ 0 <= b.y0 /\ b.y0 < b.y1 /\ b.y1 <= page.height

\* the boxes of the marked tokens of page p that lie inside it, in the
\* order of pii_tokens
RECURSIVE BoxesFor(_, _)
BoxesFor(p, g) ==
  IF g > Len(red.pii_tokens) THEN <<>>
  ELSE (IF red.pii_tokens[g].page_index = p /\ BoxInsideItsPage(g)
        THEN <<red.pii_tokens[g].bbox>> ELSE <<>>) \o BoxesFor(p, g + 1)

\* C15: the boxes queued on page p are exactly the boxes of the marked
\* tokens with page_index p that satisfy 0 <= x0 < x1 <= page_width and
\* 0 <= y0 < y1 <= page_height: a queued box is such a box and is queued on
\* the page of its token, no box is queued twice, and when the call is done
\* every such box has been queued once and the page holds these boxes.
C15_QueuedAreTheValidBoxes ==
  pc \in {"page", "token", "done"} =>
    /\ \A g \in DOMAIN red.pii_tokens :
         /\ \A n \in TokenEntries("queue", g) :
              /\ BoxInsideItsPage(g)
              /\ red.log[n].page = red.pii_tokens[g].page_index
         /\ Cardinality(TokenEntries("queue", g)) <= 1
         /\ (pc = "done" /\ BoxInsideItsPage(g)) =>
              Cardinality(TokenEntries("queue", g)) = 1
    /\ pc = "done" =>
         \A i \in DOMAIN red.pdf_doc :
           /\ red.pdf_doc[i].redacted = BoxesFor(i - 1, 1)
           /\ red.pdf_doc[i].annots = <<>>

\* the call is done; the same box was rejected for a token of the portrait
\* page and queued for a token of the landscape page, and an empty box was
\* rejected
C15_Witness ==
  /\ pc = "done"
  /\ \E g \in DOMAIN red.pii_tokens, h \in DOMAIN red.pii_tokens :
       /\ red.pii_tokens[g].bbox = red.pii_tokens[h].bbox
       /\ TokenEntries("reject", g) # {}
       /\ TokenEntries("queue", h) # {}
  /\ \E g \in DOMAIN red.pii_tokens :
       /\ red.pii_tokens[g].bbox.x0 = red.pii_tokens[g].bbox.x1
       /\ TokenEntries("reject", g) # {}

\* the place of page p in the order in which the pages are processed
GroupOf(p) == CHOOSE k \in DOMAIN red.pii_by_page : red.pii_by_page[k].page_idx = p

\* C16: a rejected box is non-fatal: after a rejection the call goes on, and
\* when it is done every token of the same page that follows the rejected
\* one and every token of a page of the PDF processed later has been queued
\* or rejected after it, the page has been committed and the document saved.
C16_RejectionIsNotFatal ==
  \A n \in DOMAIN red.log :
    red.log[n].op = "reject" =>
      /\ pc \in {"token", "page", "done"}
      /\ pc = "done" =>
           /\ \A h \in DOMAIN red.pii_tokens :
                (/\ IsPdfPage(red.pii_tokens[h].page_index)
                 /\ \/ /\ red.pii_tokens[h].page_index = red.log[n].page
                       /\ h > red.log[n].token
                    \/ GroupOf(red.pii_tokens[h].page_index) > GroupOf(red.log[n].page))
                => \E m \in TokenEntries("queue", h) \cup TokenEntries("reject", h) : m > n
           /\ \E m \in Entries("commit", red.log[n].page) : m > n
           /\ \E m \in Entries("save", 0) : m > n
           /\ red.saved # <<>>

\* the first token of a page was rejected, a later token of the same page
\* and a token of a page processed later were queued, and the saved file
\* holds both boxes
C16_Witness ==
  /\ pc = "done"
  /\ Len(red.log) >= 1
  /\ red.log[1].op = "reject"
  /\ \E m \in Entries("queue", red.log[1].page) : m > 1
  /\ \E p \in 0..MaxPages : p # red.log[1].page /\ Entries("queue", p) # {}
  /\ \A i \in DOMAIN red.pdf_doc : red.saved[1][i] # <<>>

\* C17: every page of the PDF that has marked tokens is committed exactly
\* once, after every box of that page has been queued (no box of the page
\* is queued after its commit), and the document is saved only after all
\* commits.
C17_CommitOncePerPageThenSave ==
  /\ \A p \in 0..MaxPages :
       /\ Cardinality(Entries("commit", p)) <= 1
       /\ \A c \in Entries("commit", p) :
            /\ \A q \in Entries("queue", p) : q < c
            /\ \A g \in DOMAIN red.pii_tokens :
                 (red.pii_tokens[g].page_index = p /\ BoxInsideItsPage(g)) =>
                   \E q \in TokenEntries("queue", g) : q < c
       /\ (/\ pc = "done"
           /\ IsPdfPage(p)
           /\ \E g \in DOMAIN red.pii_tokens : red.pii_tokens[g].page_index = p)
          => Cardinality(Entries("commit", p)) = 1
  /\ \A s \in Entries("save", 0) :
       /\ s = Len(red.log)
       /\ pc = "done"
  /\ pc = "done" => Cardinality(Entries("save", 0)) = 1

\* two pages were committed, the first after two boxes had been queued on
\* it, and the save is the last call
C17_Witness ==
  /\ pc = "done"
  /\ \E p \in 0..MaxPages, q \in 0..MaxPages :
       /\ p # q
       /\ Cardinality(Entries("queue", p)) = 2
       /\ Entries("commit", p) # {}
       /\ Entries("commit", q) # {}
       /\ \A c \in Entries("commit", p), d \in Entries("commit", q) : c < d
  /\ red.log[Len(red.log)].op = "save"

\* the page indices that the marked tokens name
TokenPages == { red.pii_tokens[g].page_index : g \in DOMAIN red.pii_tokens }

\* C30: the marked tokens whose page_index is no page of the PDF
\* (page_index >= page count) are skipped as a group: no box is queued or
\* tested and no commit is made for that index, the group is skipped once; and
\* the tokens of every page of the PDF are still handled: when the call is
\* done each has been queued or rejected, its page committed and the
\* document saved.
C30_OutOfRangePagesSkipped ==
  /\ \A p \in TokenPages :
       p >= Len(red.pdf_doc) =>
         /\ Entries("queue", p) = {}
         /\ Entries("reject", p) = {}
         /\ Entries("commit", p) = {}
         /\ Cardinality(Entries("skip", p)) <= 1
         /\ pc = "done" => Cardinality(Entries("skip", p)) = 1
  /\ \A n \in DOMAIN red.log :
       red.log[n].op = "skip" =>
         /\ red.log[n].page >= Len(red.pdf_doc)
         /\ pc \in {"page", "token", "done"}
  /\ pc = "done" =>
       /\ \A g \in DOMAIN red.pii_tokens :
            IsPdfPage(red.pii_tokens[g].page_index) =>
              /\ Cardinality(TokenEntries("queue", g)
                               \cup TokenEntries("reject", g)) = 1
              /\ BoxInsideItsPage(g) => TokenEntries("queue", g) # {}
              /\ Entries("commit", red.pii_tokens[g].page_index) # {}
       /\ Entries("save", 0) # {}
       /\ \A i \in DOMAIN red.pdf_doc : red.saved[1][i] = BoxesFor(i - 1, 1)

\* the first group names a page the PDF does not have and is skipped; a
\* token of a page of the PDF that comes after it is queued, its page is
\* committed, and the saved file holds its box
C30_Witness ==
  /\ pc = "done"
  /\ Len(red.log) >= 4
  /\ red.log[1].op = "skip"
  /\ Cardinality({ g \in DOMAIN red.pii_tokens :
                     red.pii_tokens[g].page_index = red.log[1].page }) = 2
  /\ red.log[2].op = "queue"
  /\ red.log[3].op = "commit"
  /\ red.saved[1][red.log[2].page + 1] # <<>>

----------------------------------------------------------------------------
(* app.test_all_pdfs: every PDF file of the test data directory is handed  *)
(* to PDFRedactor.process_single_pdf                                       *)

MaxFiles == 3

\* what an element of the directory, or a path, can be: a PDF with a text
\* layer, a PDF of page images, a file that is no PDF, a directory
PathKinds == {"text_pdf", "image_pdf", "other_file", "dir"}

\* os.path.isfile(input_path) and element.lower().endswith(".pdf")
IsPdfFile(kind) == kind \in {"text_pdf", "image_pdf"}

\* PDFRedactor.process_single_pdf(input_path, output_path): the exception it
\* ends with, None when it returns. shutil.copy2 needs a file to copy, a
\* document that is no PDF is refused, and the OCR branch calls
\* PDFAdapter.google_doc_to_document, which PDFAdapter does not have
process_single_pdf(input_path, output_path) ==
  CASE input_path = "dir" -> "IsADirectoryError"
    [] input_path = "other_file" -> "ValueError"
    [] input_path = "image_pdf" -> "AttributeError"
    [] input_path = "text_pdf" -> None

InitBatch ==
  /\ pc = "listing"
  /\ raw = <<>>
  /\ doc = EmptyDoc
  /\ raw_matches = <<>>
  /\ pii_matches = <<>>
  /\ pii_tokens = <<>>
  /\ runs = 0
  /\ red = None
  /\ \E listing \in SeqsUpTo(PathKinds, MaxFiles) :
       batch = [listing |-> listing, i |-> 1, job_id |-> 0, attempted |-> <<>>,
                error |-> None]
  /\ work = None
  /\ ocr = None

\* an element that is no PDF file is passed over
SkipElement ==
  /\ pc = "listing"
  /\ batch.i <= Len(batch.listing)
  /\ ~IsPdfFile(batch.listing[batch.i])
  /\ batch' = [batch EXCEPT !.i = @ + 1]
  /\ UNCHANGED <<pc, raw, doc, raw_matches, pii_matches, pii_tokens, runs, red,
               work, ocr>>

\* work_dir is made and PDFRedactor.process_single_pdf(work_dir, input_path)
\* is called: the directory is the first argument; an exception leaves the
\* loop and the function
ProcessPdf ==
  /\ pc = "listing"
  /\ batch.i <= Len(batch.listing)
  /\ IsPdfFile(batch.listing[batch.i])
  /\ LET error == process_single_pdf("dir", batch.listing[batch.i])
     IN  IF error # None
         THEN /\ batch' = [batch EXCEPT !.attempted = Append(@, batch.i),
                                        !.error = error]
              /\ pc' = "raised"
         ELSE /\ batch' = [batch EXCEPT !.attempted = Append(@, batch.i),
                                        !.job_id = @ + 1, !.i = @ + 1]
              /\ pc' = "listing"
  /\ UNCHANGED <<raw, doc, raw_matches, pii_matches, pii_tokens, runs, red,
               work, ocr>>

\* the loop is over: return
ReturnBatch ==
  /\ pc = "listing"
  /\ batch.i > Len(batch.listing)
  /\ pc' = "returned"
  /\ UNCHANGED <<raw, doc, raw_matches, pii_matches, pii_tokens, runs, red, batch,
               work, ocr>>

NextBatch ==
  \/ SkipElement
  \/ ProcessPdf
  \/ ReturnBatch

SpecBatch == InitBatch /\ [][NextBatch]_vars

\* C18: when the batch has ended, every PDF of the input directory has been
\* attempted, also those listed after a document whose processing raised.
C18_EveryPdfAttempted ==
  pc \in {"returned", "raised"} =>
    \A k \in DOMAIN batch.listing :
      IsPdfFile(batch.listing[k]) =>
        \E a \in DOMAIN batch.attempted : batch.attempted[a] = k

====
